---- MODULE Spec2Model ----
(***************************************************************************)
(* Crawl-and-filter core of the marketing-research pipeline:               *)
(*   src/webfill.py  CircuitBreaker, SmartURLValidator, SmartWebScraper    *)
(*                   (frontier, rate limiter, worker tasks, run loop)      *)
(*   src/youtube.py  comment relevance pipeline                            *)
(* Strings that the code inspects character by character (URLs, comment   *)
(* texts) are sequences of one-character strings, so that urlparse,        *)
(* str.replace,                                                            *)
(* rstrip and the regular expressions are computed as the code computes    *)
(* them.                                                                   *)
(***************************************************************************)
EXTENDS Integers, Sequences, FiniteSets, TLC

VARIABLES
    \* ---- the clock: time.time(), whole seconds for the stand-alone breaker,
    \* milliseconds in the crawl
    now,
    \* ---- URL functions applied to one input
    u_url,          \* the input URL
    u_base,         \* the base URL the scraper was constructed on
    u_pc,           \* 0: nothing applied, 1: validated, 2..: normalized u_pc - 1 times
    u_norm1,        \* the result of the last but one normalize_url
    u_norm2,        \* the result of the last normalize_url
    u_valid,        \* is_valid_url(u_url)
    \* ---- one CircuitBreaker driven by one caller
    cb,             \* the breaker object
    b_pc,           \* "idle", or "in_func" while the wrapped function runs
    b_calls,        \* calls of call() made
    b_invocations,  \* invocations of the wrapped function
    b_raised,       \* calls whose wrapped function raised
    b_returned,     \* calls whose wrapped function returned
    b_last,         \* outcome of the last finished call
    \* ---- fetch_relevant_comments on one response
    y_items,        \* textDisplay of the items of the response
    y_max_comments, \* argument max_comments
    y_min_similarity, \* argument min_similarity, in hundredths
    y_pc,           \* "fetch", "scan", "encode", "rerank", "done", "raised"
    y_error,        \* the error execute_with_retry raised, None when it returned
    y_i,            \* position of the running loop
    y_detect,       \* per item: what detect answered, "none" when not called
    y_raw,          \* raw
    y_filtered,     \* filtered
    y_sims,         \* sims, per element of filtered
    y_pairs,        \* pairs, sorted
    y_out,          \* out, the list returned
    \* ---- one SmartWebScraper and its run()
    site,           \* the web site crawled: its pages and what robots.txt disallows
    max_pages,
    max_workers,
    visited,
    failed_urls,
    page_summaries, \* the URL of each summary appended
    priority_urls,
    regular_urls,
    circuit_breakers,
    last_request_time, \* last_request_time[self.domain], 0 before the first request
    adaptive_delay,
    stats,
    m_pc,           \* main thread: "test", "submit", "poll", "shutdown", "finished"
    futures,        \* the executor slots of the futures, in order of submission
    consecutive_failures,
    m_k,            \* position of the loop over futures
    completed,
    w,              \* per executor slot: the task process_url(url) running in it
    dequeued,       \* history: every URL get_next_url returned
    releases,       \* history: the time of every release by smart_delay
    queued,         \* history: every URL that entered a queue
    refused,        \* history: the queue sizes get_next_url saw when it returned
    passed,         \* history: per normalized URL, the scrape_page calls that got past visited
    fetched,        \* history: per normalized URL, the HTTP requests made for it
                    \* None for the page limit
    \* ---- the scraper's lock and the code regions the threads are in
    lock,           \* the thread that holds self.lock, NoThread when it is free
    l_at,           \* per thread: the code region it is at, "idle" outside a task
    l_in,           \* per thread: TRUE once it is inside the region
    \* ---- execute_with_retry on one request
    r_tries,        \* argument tries
    r_attempt,      \* the loop variable attempt
    r_pc,           \* "execute", "backoff", "returned", "raised"
    r_last_err,     \* the local last_err
    r_outcomes,     \* history: what every request.execute() did
    r_sleeps,       \* history: the argument of every time.sleep
    r_result,       \* what the call returned or raised, None while it runs
    \* ---- search_video_ids on the queries of one question
    s_queries,      \* len(queries)
    s_max_results,  \* argument max_results
    s_pc,           \* "query", "fallback", "return", "done"
    s_k,            \* position of the loop over queries, from 1
    s_found,        \* the local found
    s_answers,      \* history: what the search of every attempted query did
    s_fallback,     \* history: what the fallback search did, None when not made
    s_out,          \* the list returned
    \* ---- build_search_queries on one question
    bq_brand,       \* argument brand
    bq_website,     \* argument website
    bq_question,    \* argument question
    bq_max_q,       \* argument max_q
    bq_pc,          \* "build", "dedupe", "done"
    bq_queries,     \* the local queries
    bq_i,           \* position of the loop over queries, from 1
    bq_deduped,     \* the local deduped (seen is the set of its elements)
    bq_out,         \* the list returned
    \* ---- the module globals of youtube.py and the defaults bound from them
    cfg_pc,         \* "main", "process", "pipeline"
    cfg_globals,    \* RETRIES, MIN_SIMILARITY, MIN_WORDS, MIN_CHARS
    cfg_defaults,   \* the default arguments evaluated by the def statements
    cfg_parameters, \* results["parameters"], None before it is built
    cfg_calls       \* history: the values each pipeline call worked with

urlVars == <<u_url, u_base, u_pc, u_norm1, u_norm2, u_valid>>
bVars == <<cb, b_pc, b_calls, b_invocations, b_raised, b_returned, b_last>>
yVars == <<y_items, y_max_comments, y_min_similarity, y_pc, y_error, y_i, y_detect, y_raw,
           y_filtered, y_sims, y_pairs, y_out>>
frontierVars == <<visited, failed_urls, priority_urls, regular_urls>>
limiterVars == <<last_request_time, adaptive_delay>>
mainVars == <<m_pc, futures, consecutive_failures, m_k, completed>>
historyVars == <<dequeued, releases, queued, refused, passed, fetched>>
crawlVars == <<site, max_pages, max_workers, frontierVars, page_summaries, limiterVars,
               circuit_breakers, stats, mainVars, w, historyVars>>
lockVars == <<lock, l_at, l_in>>
retryVars == <<r_tries, r_attempt, r_pc, r_last_err, r_outcomes, r_sleeps, r_result>>
searchVars == <<s_queries, s_max_results, s_pc, s_k, s_found, s_answers, s_fallback, s_out>>
queryVars == <<bq_brand, bq_website, bq_question, bq_max_q, bq_pc, bq_queries, bq_i, bq_deduped, bq_out>>
configVars == <<cfg_pc, cfg_globals, cfg_defaults, cfg_parameters, cfg_calls>>
vars == <<now, urlVars, bVars, yVars, crawlVars, lockVars, retryVars, searchVars, queryVars, configVars>>

\* what the actions of one part leave alone
notUrl == <<now, bVars, yVars, crawlVars, lockVars, retryVars, searchVars, queryVars, configVars>>
notBreaker == <<urlVars, yVars, crawlVars, lockVars, retryVars, searchVars, queryVars, configVars>>
notComments == <<now, urlVars, bVars, crawlVars, lockVars, retryVars, searchVars, queryVars, configVars>>
notCrawl == <<now, urlVars, bVars, yVars, lockVars, retryVars, searchVars, queryVars, configVars>>
notLock == <<now, urlVars, bVars, yVars, crawlVars, retryVars, searchVars, queryVars, configVars>>
notRetry == <<now, urlVars, bVars, yVars, crawlVars, lockVars, searchVars, queryVars, configVars>>
notSearch == <<now, urlVars, bVars, yVars, crawlVars, lockVars, retryVars, queryVars, configVars>>
notQuery == <<now, urlVars, bVars, yVars, crawlVars, lockVars, retryVars, searchVars, configVars>>
notConfig == <<now, urlVars, bVars, yVars, crawlVars, lockVars, retryVars, searchVars, queryVars>>

(***************************************************************************)
(* Character-sequence helpers (Python str operations).                     *)
(***************************************************************************)
Min(a, b) == IF a <= b THEN a ELSE b
Max(a, b) == IF a >= b THEN a ELSE b

\* s[i:] with a 1-based first index
Drop(s, i) == SubSeq(s, i, Len(s))

\* s[:n]
Take(s, n) == SubSeq(s, 1, n)

\* s.startswith(p) at 1-based offset i
MatchAt(s, i, p) ==
    /\ i >= 1
    /\ i + Len(p) - 1 <= Len(s)
    /\ \A k \in 1..Len(p) : s[i + k - 1] = p[k]

\* p in s
Contains(s, p) == \E i \in 1..(Len(s) + 1) : MatchAt(s, i, p)

\* re.search(p + '$', s) for a literal p
EndsWith(s, p) == MatchAt(s, Len(s) - Len(p) + 1, p)

\* s.find(c, from): 1-based index of the first element of s in set cs at or
\* after position from, 0 when there is none (Python's -1)
FindAny(s, cs, from) ==
    LET hits == {i \in from..Len(s) : s[i] \in cs}
    IN  IF hits = {} THEN 0 ELSE CHOOSE i \in hits : \A j \in hits : i <= j

\* s.rfind(c): 1-based index of the last c, 0 when there is none
RFind(s, c) ==
    LET hits == {i \in 1..Len(s) : s[i] = c}
    IN  IF hits = {} THEN 0 ELSE CHOOSE i \in hits : \A j \in hits : i >= j

UpperCase == <<"A","B","C","D","E","F","G","H","I","J","K","L","M","N","O","P","Q","R","S","T","U","V","W","X","Y","Z">>
LowerCase == <<"a","b","c","d","e","f","g","h","i","j","k","l","m","n","o","p","q","r","s","t","u","v","w","x","y","z">>
Letters == {UpperCase[i] : i \in 1..26} \cup {LowerCase[i] : i \in 1..26}
Digits == {"0","1","2","3","4","5","6","7","8","9"}

LowerChar(c) ==
    IF \E i \in 1..26 : UpperCase[i] = c
    THEN LowerCase[CHOOSE i \in 1..26 : UpperCase[i] = c]
    ELSE c

\* s.lower()
Lower(s) == [i \in 1..Len(s) |-> LowerChar(s[i])]

\* s.replace(old, '') : leftmost, non-overlapping occurrences removed
RECURSIVE Remove(_, _)
Remove(s, old) ==
    IF s = <<>> THEN <<>>
    ELSE IF MatchAt(s, 1, old) THEN Remove(Drop(s, Len(old) + 1), old)
    ELSE <<Head(s)>> \o Remove(Tail(s), old)

\* s.rstrip(c)
RECURSIVE RStrip(_, _)
RStrip(s, c) ==
    IF s # <<>> /\ s[Len(s)] = c THEN RStrip(Take(s, Len(s) - 1), c) ELSE s

\* s.split(c): the pieces between the separators, empty pieces included
RECURSIVE Split(_, _)
Split(s, c) ==
    LET i == FindAny(s, {c}, 1)
    IN  IF i = 0 THEN <<s>> ELSE <<Take(s, i - 1)>> \o Split(Drop(s, i + 1), c)

\* sep.join(parts)
RECURSIVE Join(_, _)
Join(parts, sep) ==
    IF parts = <<>> THEN <<>>
    ELSE IF Len(parts) = 1 THEN parts[1]
    ELSE parts[1] \o sep \o Join(Tail(parts), sep)

(***************************************************************************)
(* urllib.parse as the code uses it.                                       *)
(***************************************************************************)
SchemeChars == Letters \cup Digits \cup {"+", "-", "."}

\* urllib.parse.uses_params
UsesParams == {<<>>, <<"f","t","p">>, <<"h","d","l">>, <<"p","r","o","s","p","e","r","o">>, <<"h","t","t","p">>, <<"i","m","a","p">>, <<"h","t","t","p","s">>,
               <<"s","h","t","t","p">>, <<"r","t","s","p">>, <<"r","t","s","p","u">>, <<"s","i","p">>, <<"s","i","p","s">>, <<"m","m","s">>, <<"s","f","t","p">>, <<"t","e","l">>}

\* s.split(c, 1): the text before the first c and the text after it
CutAt(s, c) ==
    LET i == FindAny(s, {c}, 1)
    IN  IF i = 0 THEN [before |-> s, after |-> <<>>]
        ELSE [before |-> Take(s, i - 1), after |-> Drop(s, i + 1)]

\* urlsplit: the scheme, when the text before the first ':' is one
UrlScheme(url) ==
    LET colon == FindAny(url, {":"}, 1)
    IN  IF /\ colon > 1
           /\ url[1] \in Letters
           /\ \A k \in 1..(colon - 1) : url[k] \in SchemeChars
        THEN [scheme |-> Lower(Take(url, colon - 1)), rest |-> Drop(url, colon + 1)]
        ELSE [scheme |-> <<>>, rest |-> url]

\* urlsplit: the netloc, when the rest starts with '//' (_splitnetloc)
UrlNetloc(rest) ==
    IF ~MatchAt(rest, 1, <<"/", "/">>) THEN [netloc |-> <<>>, rest |-> rest]
    ELSE LET delim == FindAny(rest, {"/", "?", "#"}, 3)
         IN  IF delim = 0 THEN [netloc |-> Drop(rest, 3), rest |-> <<>>]
             ELSE [netloc |-> SubSeq(rest, 3, delim - 1), rest |-> Drop(rest, delim)]

\* urlparse: _splitparams, the ';' after the last '/', for the schemes that
\* use params
UrlParams(scheme, p) ==
    LET semi == IF scheme \in UsesParams
                THEN FindAny(p, {";"}, Max(1, RFind(p, "/")))
                ELSE 0
    IN  IF semi = 0 THEN [path |-> p, params |-> <<>>]
        ELSE [path |-> Take(p, semi - 1), params |-> Drop(p, semi + 1)]

UrlParts5(scheme, netloc, frag, query, pp) ==
    [scheme |-> scheme, netloc |-> netloc, path |-> pp.path,
     params |-> pp.params, query |-> query, fragment |-> frag]

UrlParts4(scheme, netloc, frag, q) ==
    UrlParts5(scheme, netloc, frag, q.after, UrlParams(scheme, q.before))

UrlParts3(scheme, netloc, f) ==
    UrlParts4(scheme, netloc, f.after, CutAt(f.before, "?"))

UrlParts2(scheme, n) == UrlParts3(scheme, n.netloc, CutAt(n.rest, "#"))

UrlParts1(s) == UrlParts2(s.scheme, UrlNetloc(s.rest))

\* urlparse(url): scheme, netloc, path, params, query, fragment
urlparse(url) == UrlParts1(UrlScheme(url))

\* the characters quote() leaves alone: unreserved ones and the default safe '/'
QuoteSafe == Letters \cup Digits \cup {"_", ".", "-", "~", "/"}

\* percent-encodings of the reserved characters of the model's alphabet
PercentCode(c) ==
    CASE c = ":" -> <<"%","3","A">>
      [] c = ";" -> <<"%","3","B">>
      [] c = "=" -> <<"%","3","D">>
      [] c = "?" -> <<"%","3","F">>
      [] c = "&" -> <<"%","2","6">>
      [] c = "#" -> <<"%","2","3">>
      [] c = "%" -> <<"%","2","5">>
      [] c = "+" -> <<"%","2","B">>
      [] c = "@" -> <<"%","4","0">>
      [] c = " " -> <<"%","2","0">>
      [] c = "/" -> <<"%","2","F">>
      [] OTHER   -> <<c>>

\* the characters whose %XX form unquote() is modelled to decode
Decodable == {":", ";", "=", "?", "&", "#", "%", "+", "@", " ", "/"}

\* urllib.parse.quote(value)
RECURSIVE quote(_)
quote(s) ==
    IF s = <<>> THEN <<>>
    ELSE (IF Head(s) \in QuoteSafe THEN <<Head(s)>> ELSE PercentCode(Head(s)))
         \o quote(Tail(s))

\* %XX is read with either case of its hex digits
SameCode(a, b) == Lower(a) = Lower(b)

\* urllib.parse.unquote(s): %XX decoded, anything else kept
RECURSIVE unquote(_)
unquote(s) ==
    IF s = <<>> THEN <<>>
    ELSE IF /\ Head(s) = "%"
            /\ Len(s) >= 3
            /\ \E c \in Decodable : SameCode(PercentCode(c), Take(s, 3))
         THEN <<CHOOSE c \in Decodable : SameCode(PercentCode(c), Take(s, 3))>>
              \o unquote(Drop(s, 4))
         ELSE <<Head(s)>> \o unquote(Tail(s))

\* value.replace('+', ' ')
PlusToSpace(s) == [i \in 1..Len(s) |-> IF s[i] = "+" THEN " " ELSE s[i]]

\* parse_qsl(query): the (name, value) pairs with a non-blank value
RECURSIVE QsPairs(_)
QsPairs(fields) ==
    IF fields = <<>> THEN <<>>
    ELSE LET f  == Head(fields)
             eq == FindAny(f, {"="}, 1)
         IN  (IF f = <<>> \/ eq = 0 \/ eq = Len(f)
              THEN <<>>
              ELSE << <<unquote(PlusToSpace(Take(f, eq - 1))),
                        unquote(PlusToSpace(Drop(f, eq + 1)))>> >>)
             \o QsPairs(Tail(fields))

\* for each name, in order of first appearance, its first value
FirstValues(pairs) ==
    SelectSeq([i \in 1..Len(pairs) |-> <<i, pairs[i]>>],
              LAMBDA e : \A j \in 1..(e[1] - 1) : pairs[j][1] # e[2][1])

\* parse_qs(query) read as the code reads it: (index, (name, first value))
parse_qs(query) == FirstValues(QsPairs(Split(query, "&")))

important_params == {<<"i","d">>, <<"p","a","g","e">>, <<"c","a","t","e","g","o","r","y">>, <<"t","a","g">>, <<"s","l","u","g">>, <<"s","e","c","t","i","o","n">>}

\* clean_params: the names whose lower case is in important_params
CleanParams(items) ==
    SelectSeq(items, LAMBDA e : Lower(e[2][1]) \in important_params)

\* the rebuilt query string: key=quote(value) joined by '&'
CleanQuery(kept) ==
    Join([i \in 1..Len(kept) |-> kept[i][2][1] \o <<"=">> \o quote(kept[i][2][2])],
         <<"&">>)

\* path.rstrip('/'), an empty path replaced by '/'
CleanPath(path) == IF RStrip(path, "/") = <<>> THEN <<"/">> ELSE RStrip(path, "/")

\* the f-string of normalize_url
Rebuild(scheme, netloc, path, query) ==
    scheme \o <<":","/","/">> \o netloc \o path
    \o (IF query # <<>> THEN <<"?">> \o query ELSE <<>>)

NormalizeParsed(parsed) ==
    Rebuild(parsed.scheme, parsed.netloc, CleanPath(parsed.path),
            CleanQuery(CleanParams(parse_qs(parsed.query))))

\* SmartWebScraper.normalize_url
normalize_url(url) == IF url = <<>> THEN <<>> ELSE NormalizeParsed(urlparse(url))

(***************************************************************************)
(* SmartURLValidator                                                       *)
(***************************************************************************)
\* skip_patterns that are literal substrings  (src/webfill.py:83-128)
SkipSubstrings ==
    { <<"/","c","d","n","-","c","g","i","/">>, <<"/","c","f","-","r","a","y","/">>,
      <<"/","w","p","-","a","d","m","i","n","/">>, <<"/","w","p","-","c","o","n","t","e","n","t","/","u","p","l","o","a","d","s","/">>, <<"/","a","d","m","i","n","/">>, <<"/","_","n","e","x","t","/","s","t","a","t","i","c","/">>,
      <<"/","s","t","a","t","i","c","/">>, <<"/","a","s","s","e","t","s","/">>, <<"/","n","o","d","e","_","m","o","d","u","l","e","s","/">>,
      <<"f","a","c","e","b","o","o","k",".","c","o","m">>, <<"t","w","i","t","t","e","r",".","c","o","m">>, <<"l","i","n","k","e","d","i","n",".","c","o","m">>, <<"i","n","s","t","a","g","r","a","m",".","c","o","m">>,
      <<"y","o","u","t","u","b","e",".","c","o","m">>, <<"m","a","i","l","t","o",":">>, <<"t","e","l",":">>, <<"j","a","v","a","s","c","r","i","p","t",":">>, <<"#">>,
      <<"g","o","o","g","l","e","-","a","n","a","l","y","t","i","c","s">>, <<"g","o","o","g","l","e","t","a","g","m","a","n","a","g","e","r">>, <<"f","a","c","e","b","o","o","k",".","n","e","t">>, <<"d","o","u","b","l","e","c","l","i","c","k",".","n","e","t">>,
      <<"/","s","e","a","r","c","h","?">>, <<"?","u","t","m","_">>, <<"/","s","i","t","e","m","a","p">> }

\* skip_patterns anchored at the end:  \.(css|js|...)$  \.json$  /feed/?$ ...
SkipSuffixes ==
    { <<".","c","s","s">>, <<".","j","s">>, <<".","i","c","o">>, <<".","p","n","g">>, <<".","j","p","g">>, <<".","j","p","e","g">>, <<".","g","i","f">>, <<".","s","v","g">>,
      <<".","w","o","f","f">>, <<".","w","o","f","f","2">>, <<".","t","t","f">>, <<".","e","o","t">>,
      <<".","p","d","f">>, <<".","d","o","c">>, <<".","d","o","c","x">>, <<".","x","l","s">>, <<".","x","l","s","x">>, <<".","z","i","p">>, <<".","r","a","r">>,
      <<".","m","p","4">>, <<".","m","p","3">>, <<".","a","v","i">>, <<".","m","o","v">>,
      <<".","j","s","o","n">>, <<".","x","m","l">>, <<".","t","x","t">>,
      <<"/","f","e","e","d">>, <<"/","f","e","e","d","/">>, <<"/","r","s","s">>, <<"/","r","s","s","/">> }

\* r'/.well-known/' : the dot is unescaped and matches any character
MatchesWellKnown(s) ==
    \E i \in 1..Len(s) : s[i] = "/" /\ i + 1 <= Len(s) /\ MatchAt(s, i + 2, <<"w","e","l","l","-","k","n","o","w","n","/">>)

\* any(pattern.search(full_url) for pattern in compiled_skip)
MatchesSkip(s) ==
    \/ \E p \in SkipSubstrings : Contains(s, p)
    \/ \E p \in SkipSuffixes : EndsWith(s, p)
    \/ MatchesWellKnown(s)

\* len([p for p in path.split('/') if p])
path_depth(path) == Len(SelectSeq(Split(path, "/"), LAMBDA p : p # <<>>))

\* SmartURLValidator.__init__: base_domain.replace('www.', '').lower()
validator_base(base_domain) == Lower(Remove(base_domain, <<"w","w","w",".">>))

\* is_valid_url after urlparse without the comparison of domains
ValidParsed_any_domain(url, parsed, base_domain) ==
    /\ parsed.scheme \in {<<"h","t","t","p">>, <<"h","t","t","p","s">>}
    /\ ~MatchesSkip(Lower(url))
    /\ Len(parsed.query) <= 200
    /\ path_depth(parsed.path) <= 6

\* is_valid_url after urlparse: scheme, domain, skip patterns, query length,
\* path depth
ValidParsed(url, parsed, base_domain) ==
    /\ parsed.scheme \in {<<"h","t","t","p">>, <<"h","t","t","p","s">>}
    /\ Lower(Remove(parsed.netloc, <<"w","w","w",".">>)) = validator_base(base_domain)
    /\ ~MatchesSkip(Lower(url))
    /\ Len(parsed.query) <= 200
    /\ path_depth(parsed.path) <= 6

\* SmartURLValidator.is_valid_url, for a validator built on base_domain
is_valid_url(url, base_domain) ==
    /\ url # <<>>
    /\ Len(url) <= 2000
    /\ ValidParsed(url, urlparse(url), base_domain)

good_patterns ==
    { <<"/","b","l","o","g","/">>, <<"/","a","r","t","i","c","l","e","/">>, <<"/","p","o","s","t","/">>, <<"/","n","e","w","s","/">>, <<"/","a","b","o","u","t","/">>, <<"/","c","o","n","t","a","c","t","/">>,
      <<"/","s","e","r","v","i","c","e","/">>, <<"/","p","r","o","d","u","c","t","/">>, <<"/","p","r","i","c","i","n","g","/">>, <<"/","f","e","a","t","u","r","e","/">>, <<"/","h","e","l","p","/">>,
      <<"/","s","u","p","p","o","r","t","/">>, <<"/","d","o","c","s","/">>, <<"/","g","u","i","d","e","/">>, <<"/","t","u","t","o","r","i","a","l","/">> }

PriorityParsed(url, parsed) ==
    10 * Cardinality({p \in good_patterns : Contains(Lower(url), p)})
    + Max(0, 5 - path_depth(parsed.path))
    + (IF parsed.query = <<>> THEN 2 ELSE 0)

\* SmartURLValidator.get_url_priority
get_url_priority(url) == PriorityParsed(url, urlparse(url))

(***************************************************************************)
(* Harness for the URL functions: one input URL, validated against a base  *)
(* domain and normalized twice.                                            *)
(***************************************************************************)
\* number of normalize_url applications the harness makes in a row
MaxNormalize == 2

\* number of host pieces an input host is concatenated from
MaxHostPieces == 3

UrlHeads ==
    { <<>>, <<"h","t","t","p","s",":","/","/","s","i","t","e",".","t","e","s","t">>, <<"h","t","t","p",":","/","/","w","w","w",".","s","i","t","e",".","t","e","s","t">>, <<"H","T","T","P","S",":","/","/","S","i","t","e",".","T","e","s","t">>,
      <<"h","t","t","p","s",":">>, <<"/","/","s","i","t","e",".","t","e","s","t">>, <<"s","i","t","e",".","t","e","s","t">>, <<"m","a","i","l","t","o",":">> }

UrlPaths ==
    { <<>>, <<"/">>, <<"/","a","b","o","u","t">>, <<"/","b","l","o","g","/">>, <<"/","a","/","/">>, <<"/","a",";","x">>, <<"/","a",";","x","/">>, <<"a">> }

UrlTails ==
    { <<>>, <<"?","i","d","=","1">>, <<"?","u","t","m","=","1">>, <<"?","i","d","=","1","&","u","t","m","=","2","&","p","a","g","e","=","3">>, <<"?","i","d","=","a",":","b">>, <<"?","i","d","=","a","%","3","F","b","&","i","d","=","2">>,
      <<"?","I","D","=","x","+","y">>, <<"?","p","a","g","e","=">>, <<"#","t","o","p">>, <<"?","t","a","g","=","t","#","t","o","p">> }

HostPieces == { <<"w","w","w",".">>, <<"s","i">>, <<"t","e">>, <<"s","i","t","e">>, <<".","t","e","s","t">>, <<"o","t","h","e","r">> }

\* the concatenation of a sequence of strings
RECURSIVE Concat(_)
Concat(parts) == IF parts = <<>> THEN <<>> ELSE Head(parts) \o Concat(Tail(parts))

\* hosts made of at most n pieces
HostsOf(n) == {Concat(f) : f \in [1..n -> HostPieces \cup {<<>>}]}

UrlInputs ==
    {h \o p \o t : h \in UrlHeads, p \in UrlPaths, t \in UrlTails}
    \cup {<<"h","t","t","p","s",":","/","/">> \o h \o p : h \in HostsOf(MaxHostPieces), p \in {<<>>, <<"/","a","b","o","u","t">>}}

\* base URLs a scraper is constructed on
BaseUrls == { <<"h","t","t","p","s",":","/","/","s","i","t","e",".","t","e","s","t","/">>, <<"h","t","t","p","s",":","/","/","w","w","w",".","s","i","t","e",".","t","e","s","t">> }

\* SmartWebScraper.__init__: self.base_domain
scraper_base_domain(base_url) == Remove(urlparse(base_url).netloc, <<"w","w","w",".">>)

\* the harness is not in use
UrlIdle ==
    /\ u_url = <<>>
    /\ u_base = <<>>
    /\ u_pc = 0
    /\ u_norm1 = <<>>
    /\ u_norm2 = <<>>
    /\ u_valid = FALSE

UrlInit ==
    /\ u_url \in UrlInputs
    /\ u_base \in BaseUrls
    /\ u_pc = 0
    /\ u_norm1 = <<>>
    /\ u_norm2 = <<>>
    /\ u_valid = FALSE

\* url_validator.is_valid_url(url)
Validate ==
    /\ u_pc = 0
    /\ u_valid' = is_valid_url(u_url, scraper_base_domain(u_base))
    /\ u_pc' = 1
    /\ UNCHANGED <<u_url, u_base, u_norm1, u_norm2>>
    /\ UNCHANGED notUrl

\* normalized = normalize_url(url), as add_url does
NormalizeOnce ==
    /\ u_pc = 1
    /\ u_norm1' = normalize_url(u_url)
    /\ u_norm2' = normalize_url(u_url)
    /\ u_pc' = 2
    /\ UNCHANGED <<u_url, u_base, u_valid>>
    /\ UNCHANGED notUrl

\* normalize_url applied to a normalized URL, as scrape_page does
NormalizeAgain ==
    /\ u_pc >= 2
    /\ u_pc < 1 + MaxNormalize
    /\ u_norm1' = u_norm2
    /\ u_norm2' = normalize_url(u_norm2)
    /\ u_pc' = u_pc + 1
    /\ UNCHANGED <<u_url, u_base, u_valid>>
    /\ UNCHANGED notUrl

UrlNext == Validate \/ NormalizeOnce \/ NormalizeAgain

(***************************************************************************)
(* CircuitBreaker                                                          *)
(***************************************************************************)
\* last_failure_time = None
NoTime == -1

\* time.time() when the program starts; the clock counts whole seconds
StartTime == 100

\* CircuitBreaker.__init__
NewBreaker(threshold, timeout) ==
    [failure_threshold |-> threshold, recovery_timeout |-> timeout,
     failure_count |-> 0, last_failure_time |-> NoTime, state |-> "closed"]

\* call() admitting a call as soon as the time since the last failure
\* reaches recovery_timeout
cb_admits_at_timeout(b, t) ==
    b.state # "open" \/ t - b.last_failure_time >= b.recovery_timeout

\* call(): whether the wrapped function is run at time t (lines 54-58)
cb_admits(b, t) ==
    b.state # "open" \/ t - b.last_failure_time > b.recovery_timeout

\* call(): the breaker as the wrapped function starts (line 56)
cb_enter(b, t) ==
    IF b.state = "open" /\ t - b.last_failure_time > b.recovery_timeout
    THEN [b EXCEPT !.state = "half-open"]
    ELSE b

\* variant of call() that resets failure_count on every success
cb_success_resets_always(b) == [b EXCEPT !.state = "closed", !.failure_count = 0]

\* call(): the wrapped function returned (lines 62-65)
cb_success(b) ==
    IF b.state = "half-open"
    THEN [b EXCEPT !.state = "closed", !.failure_count = 0]
    ELSE b

\* call() keeping the time of the first failure as last_failure_time
cb_failure_keeps_time(b, t) ==
    LET count == b.failure_count + 1
    IN  [b EXCEPT !.failure_count = count,
                  !.last_failure_time = IF @ = NoTime THEN t ELSE @,
                  !.state = IF count >= b.failure_threshold THEN "open" ELSE @]

\* call(): the wrapped function raised at time t (lines 66-74)
cb_failure(b, t) ==
    LET count == b.failure_count + 1
    IN  [b EXCEPT !.failure_count = count,
                  !.last_failure_time = t,
                  !.state = IF count >= b.failure_threshold THEN "open" ELSE @]

(***************************************************************************)
(* One breaker driven by one caller: call() is entered, the wrapped        *)
(* function returns or raises, and the clock advances in between.          *)
(***************************************************************************)
MaxThreshold == 2
MaxRecovery == 2
MaxCalls == 7
MaxTicks == 6

\* no stand-alone breaker is in use
BreakerIdle ==
    /\ cb = NewBreaker(1, 0)
    /\ b_pc = "idle"
    /\ b_calls = 0
    /\ b_invocations = 0
    /\ b_raised = 0
    /\ b_returned = 0
    /\ b_last = "none"

BreakerInit ==
    /\ cb \in {NewBreaker(t, r) : t \in 1..MaxThreshold, r \in 0..MaxRecovery}
    /\ b_pc = "idle"
    /\ b_calls = 0
    /\ b_invocations = 0
    /\ b_raised = 0
    /\ b_returned = 0
    /\ b_last = "none"

\* call() while the breaker is open and the timeout has not passed: line 58
CallRejected ==
    /\ b_pc = "idle"
    /\ b_calls < MaxCalls
    /\ ~cb_admits(cb, now)
    /\ b_calls' = b_calls + 1
    /\ b_last' = "circuit_open"
    /\ UNCHANGED <<cb, now, b_pc, b_invocations, b_raised, b_returned>>
    /\ UNCHANGED notBreaker

\* call() reaches func(*args, **kwargs): line 61
CallEnter ==
    /\ b_pc = "idle"
    /\ b_calls < MaxCalls
    /\ cb_admits(cb, now)
    /\ cb' = cb_enter(cb, now)
    /\ b_pc' = "in_func"
    /\ b_calls' = b_calls + 1
    /\ b_invocations' = b_invocations + 1
    /\ UNCHANGED <<now, b_raised, b_returned, b_last>>
    /\ UNCHANGED notBreaker

\* the wrapped function returns: lines 62-65
FuncReturns ==
    /\ b_pc = "in_func"
    /\ cb' = cb_success(cb)
    /\ b_pc' = "idle"
    /\ b_returned' = b_returned + 1
    /\ b_last' = "returned"
    /\ UNCHANGED <<now, b_calls, b_invocations, b_raised>>
    /\ UNCHANGED notBreaker

\* the wrapped function raises: lines 66-74
FuncRaises ==
    /\ b_pc = "in_func"
    /\ cb' = cb_failure(cb, now)
    /\ b_pc' = "idle"
    /\ b_raised' = b_raised + 1
    /\ b_last' = "raised"
    /\ UNCHANGED <<now, b_calls, b_invocations, b_returned>>
    /\ UNCHANGED notBreaker

\* a second passes
BreakerTick ==
    /\ now < StartTime + MaxTicks
    /\ now' = now + 1
    /\ UNCHANGED <<cb, b_pc, b_calls, b_invocations, b_raised, b_returned, b_last>>
    /\ UNCHANGED notBreaker

BreakerNext == CallRejected \/ CallEnter \/ FuncReturns \/ FuncRaises \/ BreakerTick

(***************************************************************************)
(* youtube.py: the comment relevance pipeline.  Similarity scores and the  *)
(* similarity floor are in hundredths.                                     *)
(***************************************************************************)
MIN_SIMILARITY == 25
MIN_WORDS == 6
MIN_CHARS == 25

GENERIC_TRASH_SUBSTRINGS ==
    { <<"s","u","b","s","c","r","i","b","e">>, <<"f","o","l","l","o","w"," ","m","e">>, <<"c","h","e","c","k"," ","m","y"," ","c","h","a","n","n","e","l">>, <<"c","h","e","c","k"," ","o","u","t"," ","m","y"," ","c","h","a","n","n","e","l">>,
      <<"g","i","v","e","a","w","a","y">>, <<"h","t","t","p",":","/","/">>, <<"h","t","t","p","s",":","/","/">>, <<"w","w","w",".">> }

\* the patterns anchored at both ends
GENERIC_TRASH_WHOLE ==
    { <<"n","i","c","e">>, <<"n","i","c","e","!">>, <<"n","i","c","e"," ","v","i","d","e","o">>, <<"n","i","c","e"," ","v","i","d","e","o","!">>, <<"c","o","o","l">>, <<"c","o","o","l","!">>,
      <<"a","w","e","s","o","m","e">>, <<"a","w","e","s","o","m","e","!">>, <<"f","i","r","s","t">>, <<"f","i","r","s","t","!">>, <<"l","o","l">>, <<"l","o","l","!">> }

\* the words of \b(?:like|share|comment)\b
GENERIC_TRASH_WORDS == { <<"l","i","k","e">>, <<"s","h","a","r","e">>, <<"c","o","m","m","e","n","t">> }

\* \w
WordChars == Letters \cup Digits \cup {"_"}

\* \bword\b matches s at offset i
WordAt(s, i, word) ==
    /\ MatchAt(s, i, word)
    /\ (i = 1 \/ s[i - 1] \notin WordChars)
    /\ (i + Len(word) > Len(s) \/ s[i + Len(word)] \notin WordChars)

\* some pattern of GENERIC_TRASH_PATTERNS is found in s
MatchesTrash(s) ==
    \/ \E p \in GENERIC_TRASH_SUBSTRINGS : Contains(s, p)
    \/ \E i \in 1..(Len(s) - 1) : s[i] \in {"#", "@"} /\ s[i + 1] \in WordChars
    \/ \E word \in GENERIC_TRASH_WORDS : \E i \in 1..Len(s) : WordAt(s, i, word)
    \/ s \in GENERIC_TRASH_WHOLE

\* re.sub(r"\s+", " ", s)
RECURSIVE Squeeze(_)
Squeeze(s) ==
    IF Len(s) < 2 THEN s
    ELSE IF s[1] = " " /\ s[2] = " " THEN Squeeze(Tail(s))
    ELSE <<s[1]>> \o Squeeze(Tail(s))

\* s.lstrip()
RECURSIVE LStrip(_)
LStrip(s) == IF s # <<>> /\ s[1] = " " THEN LStrip(Tail(s)) ELSE s

normalize(s) == RStrip(LStrip(Squeeze(s)), " ")

tolc(s) == Lower(normalize(s))

\* len(text.split())
WordCount(text) == Len(SelectSeq(Split(text, " "), LAMBDA word : word # <<>>))

\* the characters that are neither alphanumeric nor white space
NonAlnum(text) ==
    Cardinality({i \in 1..Len(text) : text[i] \notin Letters \cup Digits \cup {" "}})

\* looks_meaningful without the test of MIN_CHARS
looks_meaningful_any_length(text) ==
    /\ WordCount(text) >= MIN_WORDS
    /\ 5 * NonAlnum(text) <= 2 * Max(1, Len(text))
    /\ ~MatchesTrash(tolc(text))

\* looks_meaningful(text); the ratio test count / len > 0.4 in integers
looks_meaningful(text) ==
    /\ Len(text) >= MIN_CHARS
    /\ WordCount(text) >= MIN_WORDS
    /\ 5 * NonAlnum(text) <= 2 * Max(1, Len(text))
    /\ ~MatchesTrash(tolc(text))

\* set(extract_keywords(question)) for the question
\* "how durable is the leather bag"
q_keywords == { <<"d","u","r","a","b","l","e">>, <<"l","e","a","t","h","e","r">>, <<"b","a","g">> }

\* any(k in tolc(c["text"]) for k in q_keywords)
HasKeyword(text) == \E k \in q_keywords : Contains(tolc(text), k)

\* [c for c in raw if ...]
KeywordFilter(raw) == SelectSeq(raw, LAMBDA c : HasKeyword(c.text))

\* one step of a stable sort by descending score: p goes after the elements
\* whose score is not smaller
InsertDesc(p, sorted) ==
    LET n == Cardinality({j \in 1..Len(sorted) : sorted[j].s >= p.s})
    IN  SubSeq(sorted, 1, n) \o <<p>> \o SubSeq(sorted, n + 1, Len(sorted))

\* pairs.sort(key=lambda x: float(x[1]), reverse=True)
RECURSIVE SortDesc(_)
SortDesc(pairs) ==
    IF pairs = <<>> THEN <<>>
    ELSE InsertDesc(pairs[Len(pairs)], SortDesc(Take(pairs, Len(pairs) - 1)))

\* list(zip(filtered, sims))
Zip(filtered, sims) == [i \in 1..Len(filtered) |-> [c |-> filtered[i], s |-> sims[i]]]

(***************************************************************************)
(* fetch_relevant_comments on one response of commentThreads.list.  The    *)
(* language detector and the embedder are outside the program: detect      *)
(* answers "en", another language, or raises; a score is any of Scores.    *)
(***************************************************************************)
\* items in one response
\* Python's None
None == <<>>

\* what request.execute() does: it returns, or raises an exception of a type
Outcome(type, status) == [type |-> type, status |-> status]
Returned200 == Outcome("ok", 200)
HttpStatuses == {400, 403, 404, 429, 500, 501, 503}
HttpErrors == {Outcome("HttpError", st) : st \in HttpStatuses}
\* socket.timeout, TimeoutError and ConnectionError are OSError
NetworkErrors == {Outcome(ty, 0) : ty \in {"socket.timeout", "TimeoutError", "ConnectionError"}}
\* exceptions that are neither HttpError nor OSError
OtherErrors == {Outcome(ty, 0) : ty \in {"ValueError", "KeyError"}}

\* raise None
RaiseNone == Outcome("TypeError", 0)

\* every error execute_with_retry can raise
ExecuteErrors == HttpErrors \cup NetworkErrors \cup OtherErrors \cup {RaiseNone}

\* an item of the response without snippet.topLevelComment.snippet
MalformedItem == <<"{}">>

MaxItems == 3

\* the largest max_comments passed
MaxCap == 2

\* textDisplay of the comments a response can hold
CommentTexts ==
    { <<"T","h","i","s"," ","l","e","a","t","h","e","r"," ","b","a","g"," ","l","a","s","t","e","d"," ","m","e"," ","f","i","v","e"," ","y","e","a","r","s">>,
      <<"t","h","e"," ","s","t","r","a","p"," ","o","n"," ","m","y"," ","b","a","g"," "," ","b","r","o","k","e"," ","i","n"," ","a"," ","w","e","e","k"," ">>,
      <<" ","m","y"," ","b","a","g"," "," ","i","s"," "," ","o","k"," "," ","s","o"," "," ","f","a","r"," ">>,
      <<"e","x","t","r","a","o","r","d","i","n","a","r","i","l","y"," ","c","o","m","f","o","r","t","a","b","l","e"," ","l","e","a","t","h","e","r">>,
      <<"b","a","g","!","!","!"," ","$","$","$"," ","*","*","*"," ","!","!","!"," ","?","?","?"," ","a"," ","b"," ","c"," ","d"," ","e">>,
      <<"d","o"," ","y","o","u"," ","l","i","k","e"," ","t","h","i","s"," ","b","a","g"," ","m","o","r","e"," ","t","h","a","n"," ","t","h","e"," ","o","l","d"," ","o","n","e">>,
      <<"t","h","e"," ","d","e","l","i","v","e","r","y"," ","t","o","o","k"," ","a","l","m","o","s","t"," ","t","h","r","e","e"," ","w","e","e","k","s"," ","t","o"," ","a","r","r","i","v","e">> }

Responses == UNION {[1..n -> CommentTexts \cup {MalformedItem}] : n \in 0..MaxItems}

DetectResults == {"en", "other", "raise"}

Scores == {10, 30, 50}

\* similarity floors: the default and a stricter one
Floors == {MIN_SIMILARITY, 40}

\* no comment pipeline is in use
CommentsIdle ==
    /\ y_items = <<>>
    /\ y_max_comments = 0
    /\ y_min_similarity = 0
    /\ y_pc = "done"
    /\ y_error = None
    /\ y_i = 0
    /\ y_detect = <<>>
    /\ y_raw = <<>>
    /\ y_filtered = <<>>
    /\ y_sims = <<>>
    /\ y_pairs = <<>>
    /\ y_out = <<>>

CommentsInit ==
    /\ y_items \in Responses
    /\ y_max_comments \in 0..MaxCap
    /\ y_min_similarity \in Floors
    /\ y_pc = "fetch"
    /\ y_error = None
    /\ y_i = 0
    /\ y_detect = [i \in 1..Len(y_items) |-> "none"]
    /\ y_raw = <<>>
    /\ y_filtered = <<>>
    /\ y_sims = <<>>
    /\ y_pairs = <<>>
    /\ y_out = <<>>

\* execute_with_retry returned the response
FetchOk ==
    /\ y_pc = "fetch"
    /\ y_pc' = "scan"
    /\ y_i' = 1
    /\ UNCHANGED <<y_items, y_error, y_max_comments, y_min_similarity, y_detect, y_raw,
                   y_filtered, y_sims, y_pairs, y_out>>
    /\ UNCHANGED notComments

\* variant of FetchFails with no "except Exception" after "except HttpError"
FetchFails_http_only ==
    /\ y_pc = "fetch"
    /\ \E e \in ExecuteErrors :
          /\ y_error' = e
          /\ y_pc' = IF e.type = "HttpError" THEN "done" ELSE "raised"
    /\ UNCHANGED <<y_items, y_max_comments, y_min_similarity, y_i, y_detect, y_raw,
                   y_filtered, y_sims, y_pairs, y_out>>
    /\ UNCHANGED notComments

\* execute_with_retry raised: "except HttpError" and "except Exception" both
\* return []
FetchFails ==
    /\ y_pc = "fetch"
    /\ \E e \in ExecuteErrors :
          /\ y_error' = e
          /\ y_pc' = "done"
    /\ UNCHANGED <<y_items, y_max_comments, y_min_similarity, y_i, y_detect, y_raw,
                   y_filtered, y_sims, y_pairs, y_out>>
    /\ UNCHANGED notComments

\* one iteration of the loop over resp["items"], for an item whose
\* it["snippet"]["topLevelComment"]["snippet"] raises: "except Exception:
\* continue"
ScanMalformed ==
    /\ y_pc = "scan"
    /\ y_i <= Len(y_items)
    /\ y_items[y_i] = MalformedItem
    /\ y_i' = y_i + 1
    /\ UNCHANGED <<y_items, y_error, y_max_comments, y_min_similarity, y_pc, y_detect, y_raw,
                   y_filtered, y_sims, y_pairs, y_out>>
    /\ UNCHANGED notComments

\* one iteration of the loop over resp["items"], for a text that
\* looks_meaningful rejects
ScanSkip ==
    /\ y_pc = "scan"
    /\ y_i <= Len(y_items)
    /\ y_items[y_i] # MalformedItem
    /\ ~looks_meaningful(normalize(y_items[y_i]))
    /\ y_i' = y_i + 1
    /\ UNCHANGED <<y_items, y_error, y_max_comments, y_min_similarity, y_pc, y_detect, y_raw,
                   y_filtered, y_sims, y_pairs, y_out>>
    /\ UNCHANGED notComments

\* one iteration of the loop over resp["items"], for a text that
\* looks_meaningful accepts: detect is called
ScanDetect ==
    /\ y_pc = "scan"
    /\ y_i <= Len(y_items)
    /\ y_items[y_i] # MalformedItem
    /\ looks_meaningful(normalize(y_items[y_i]))
    /\ \E lang \in DetectResults :
          /\ y_detect' = [y_detect EXCEPT ![y_i] = lang]
          /\ y_raw' = IF lang = "en"
                      THEN Append(y_raw, [text |-> normalize(y_items[y_i]), item |-> y_i])
                      ELSE y_raw
    /\ y_i' = y_i + 1
    /\ UNCHANGED <<y_items, y_error, y_max_comments, y_min_similarity, y_pc,
                   y_filtered, y_sims, y_pairs, y_out>>
    /\ UNCHANGED notComments

\* after the loop: the keyword filter; return [] when raw or filtered is empty
FilterKeywords ==
    /\ y_pc = "scan"
    /\ y_i > Len(y_items)
    /\ y_filtered' = KeywordFilter(y_raw)
    /\ y_pc' = IF KeywordFilter(y_raw) = <<>> THEN "done" ELSE "encode"
    /\ UNCHANGED <<y_items, y_error, y_max_comments, y_min_similarity, y_i, y_detect, y_raw,
                   y_sims, y_pairs, y_out>>
    /\ UNCHANGED notComments

\* the embedder scored the comments; pairs are sorted
Encode ==
    /\ y_pc = "encode"
    /\ \E sims \in [1..Len(y_filtered) -> Scores] :
          /\ y_sims' = sims
          /\ y_pairs' = SortDesc(Zip(y_filtered, sims))
    /\ y_pc' = "rerank"
    /\ y_i' = 1
    /\ UNCHANGED <<y_items, y_error, y_max_comments, y_min_similarity, y_detect, y_raw,
                   y_filtered, y_out>>
    /\ UNCHANGED notComments

\* the embedder raised: return []
EncodeFails ==
    /\ y_pc = "encode"
    /\ y_pc' = "done"
    /\ UNCHANGED <<y_items, y_error, y_max_comments, y_min_similarity, y_i, y_detect, y_raw,
                   y_filtered, y_sims, y_pairs, y_out>>
    /\ UNCHANGED notComments

\* one iteration of "for c, s in pairs", the pair below the floor
RerankSkip ==
    /\ y_pc = "rerank"
    /\ y_i <= Len(y_pairs)
    /\ y_pairs[y_i].s < y_min_similarity
    /\ y_i' = y_i + 1
    /\ UNCHANGED <<y_items, y_error, y_max_comments, y_min_similarity, y_pc, y_detect, y_raw,
                   y_filtered, y_sims, y_pairs, y_out>>
    /\ UNCHANGED notComments

\* one iteration of "for c, s in pairs", the pair at or above the floor:
\* appended, then the length of out is compared with max_comments
RerankKeep ==
    /\ y_pc = "rerank"
    /\ y_i <= Len(y_pairs)
    /\ y_pairs[y_i].s >= y_min_similarity
    /\ y_out' = Append(y_out, [text |-> y_pairs[y_i].c.text,
                               item |-> y_pairs[y_i].c.item,
                               similarity_score |-> y_pairs[y_i].s])
    /\ IF Len(y_out) + 1 >= y_max_comments
       THEN y_pc' = "done" /\ y_i' = y_i
       ELSE y_pc' = y_pc /\ y_i' = y_i + 1
    /\ UNCHANGED <<y_items, y_error, y_max_comments, y_min_similarity, y_detect, y_raw,
                   y_filtered, y_sims, y_pairs>>
    /\ UNCHANGED notComments

\* the loop over pairs ran out: return out
RerankEnd ==
    /\ y_pc = "rerank"
    /\ y_i > Len(y_pairs)
    /\ y_pc' = "done"
    /\ UNCHANGED <<y_items, y_error, y_max_comments, y_min_similarity, y_i, y_detect, y_raw,
                   y_filtered, y_sims, y_pairs, y_out>>
    /\ UNCHANGED notComments

CommentsNext ==
    \/ FetchOk \/ FetchFails \/ ScanMalformed \/ ScanSkip \/ ScanDetect \/ FilterKeywords
    \/ Encode \/ EncodeFails \/ RerankSkip \/ RerankKeep \/ RerankEnd

(***************************************************************************)
(* SmartWebScraper: the frontier, the rate limiter, the worker tasks and   *)
(* the main loop of run().  In the crawl the clock and every delay are in  *)
(* milliseconds; fractions of a millisecond are dropped.                   *)
(***************************************************************************)
\* self.min_delay
min_delay == 2000

\* time.time() when run() starts
CrawlStart == 1000000

\* max_consecutive_failures
max_consecutive_failures == 10

\* largest max_workers and largest max_pages a scraper is constructed with
MaxWorkers == 2
MaxPages == 2

\* the base URL of the crawl
base_url == <<"h","t","t","p","s",":","/","/","s","i","t","e",".","t","e","s","t","/">>

\* the URLs that the pages of the sites link to, as _extract_links returns
\* them
Urls ==
    [about |-> <<"h","t","t","p","s",":","/","/","s","i","t","e",".","t","e","s","t","/","a","b","o","u","t">>,
     team |-> <<"h","t","t","p","s",":","/","/","s","i","t","e",".","t","e","s","t","/","t","e","a","m">>,
     other |-> <<"h","t","t","p","s",":","/","/","o","t","h","e","r",".","t","e","s","t","/","x">>,
     pdf |-> <<"h","t","t","p","s",":","/","/","s","i","t","e",".","t","e","s","t","/","f","i","l","e",".","p","d","f">>,
     blog_slash |-> <<"h","t","t","p","s",":","/","/","s","i","t","e",".","t","e","s","t","/","b","l","o","g","/">>,
     blog |-> <<"h","t","t","p","s",":","/","/","s","i","t","e",".","t","e","s","t","/","b","l","o","g">>,
     data |-> <<"h","t","t","p","s",":","/","/","s","i","t","e",".","t","e","s","t","/","d","a","t","a">>,
     down |-> <<"h","t","t","p","s",":","/","/","s","i","t","e",".","t","e","s","t","/","d","o","w","n">>,
     gone |-> <<"h","t","t","p","s",":","/","/","s","i","t","e",".","t","e","s","t","/","g","o","n","e">>,
     private |-> <<"h","t","t","p","s",":","/","/","s","i","t","e",".","t","e","s","t","/","p","r","i","v","a","t","e">>,
     busy |-> << <<"h","t","t","p","s",":","/","/","s","i","t","e",".","t","e","s","t","/","p","1">>, <<"h","t","t","p","s",":","/","/","s","i","t","e",".","t","e","s","t","/","p","2">>,
                 <<"h","t","t","p","s",":","/","/","s","i","t","e",".","t","e","s","t","/","p","3">>, <<"h","t","t","p","s",":","/","/","s","i","t","e",".","t","e","s","t","/","p","4">>,
                 <<"h","t","t","p","s",":","/","/","s","i","t","e",".","t","e","s","t","/","p","5">> >>]

LinkUrls ==
    {base_url} \cup {Urls[k] : k \in DOMAIN Urls \ {"busy"}}
    \cup {Urls.busy[i] : i \in 1..5}

\* is_valid_url, normalize_url and get_url_priority of every URL the crawl
\* meets, computed once
UrlFacts ==
    [u \in LinkUrls \cup {normalize_url(l) : l \in LinkUrls} |->
        [valid |-> is_valid_url(u, scraper_base_domain(base_url)),
         normalized |-> normalize_url(u),
         priority |-> get_url_priority(u)]]

Page(status, links) == [status |-> status, links |-> links]

\* the scenario site: the seed links to two pages of the site, a page of
\* another site and a PDF
ScenarioSite ==
    [pages |-> (base_url :> Page("html", <<Urls.about, Urls.team, Urls.other, Urls.pdf>>))
               @@ (Urls.about :> Page("html", <<base_url>>))
               @@ (Urls.team :> Page("html", <<>>))
               @@ (Urls.other :> Page("html", <<>>))
               @@ (Urls.pdf :> Page("other", <<>>)),
     disallowed |-> {}, robots_loaded |-> TRUE]

\* a site whose seed links to the same page with and without the final '/'
SlashSite ==
    [pages |-> (base_url :> Page("html", <<Urls.blog_slash, Urls.blog>>))
               @@ (Urls.blog :> Page("html", <<base_url>>)),
     disallowed |-> {}, robots_loaded |-> TRUE]

\* a site that answers 429 on five pages
BusySite ==
    [pages |-> (base_url :> Page("html", <<Urls.busy[1], Urls.busy[2], Urls.busy[3],
                                            Urls.busy[4], Urls.busy[5], Urls.about>>))
               @@ [u \in {Urls.busy[i] : i \in 1..5} |-> Page("429", <<>>)]
               @@ (Urls.about :> Page("html", <<>>)),
     disallowed |-> {}, robots_loaded |-> TRUE]

\* a site with a page that answers 503, one that is not HTML, one that
\* robots.txt disallows and a dead link
BrokenSite ==
    [pages |-> (base_url :> Page("html", <<Urls.down, Urls.data, Urls.private, Urls.about>>))
               @@ (Urls.down :> Page("503", <<>>))
               @@ (Urls.data :> Page("other", <<>>))
               @@ (Urls.private :> Page("html", <<>>))
               @@ (Urls.about :> Page("html", <<Urls.gone, Urls.pdf>>)),
     disallowed |-> {Urls.private}, robots_loaded |-> TRUE]

Sites == {ScenarioSite, SlashSite, BusySite, BrokenSite}

\* the same site when check_robots_txt could not load robots.txt and left
\* robots_parser at None
UnreadSite == [BrokenSite EXCEPT !.robots_loaded = FALSE]

\* variant of can_fetch_url without the test of robots_parser
can_fetch_url_without_parser(s, url) == url \notin s.disallowed

\* can_fetch_url(url): True without a parser, else the parser's answer
can_fetch_url(s, url) == IF ~s.robots_loaded THEN TRUE ELSE url \notin s.disallowed

\* a site whose start page links to eleven pages it does not have
DeadSite ==
    [pages |-> (base_url :> Page("html", <<Urls.busy[1], Urls.busy[2], Urls.busy[3],
                                            Urls.busy[4], Urls.busy[5], Urls.down,
                                            Urls.gone, Urls.data, Urls.team,
                                            Urls.private, Urls.about>>)),
     disallowed |-> {}, robots_loaded |-> TRUE]

\* session.get(url): the answer of the site, 404 for a URL it does not have
Fetch(s, url) ==
    IF url \in DOMAIN s.pages THEN s.pages[url] ELSE Page("404", <<>>)

\* what the exception raised for a status says: str(e) holds "429" for a
\* rate limit
ErrorOf(status) ==
    IF status = "429" THEN "rate_limited"
    ELSE IF status = "503" THEN "server_error"
    ELSE "http_error"

\* self.circuit_breakers
NewBreakers ==
    [timeout |-> NewBreaker(3, 180000),
     server_error |-> NewBreaker(5, 300000),
     rate_limit |-> NewBreaker(2, 600000)]

\* self.stats
NewStats ==
    [requests_made |-> 0, errors_encountered |-> 0, urls_filtered |-> 0,
     rate_limit_hits |-> 0, circuit_breaker_trips |-> 0]

\* the elements of a deque
Elements(q) == {q[i] : i \in 1..Len(q)}

\* the frontier: what add_url and get_next_url read and write
Frontier(v, f, p, r, n) ==
    [visited |-> v, failed_urls |-> f, priority_urls |-> p, regular_urls |-> r,
     urls_filtered |-> n]

\* variant of add_url with no test of visited and failed_urls
add_url_unchecked(fr, url, priority) ==
    IF ~UrlFacts[url].valid
    THEN [fr EXCEPT !.urls_filtered = @ + 1]
    ELSE IF priority + UrlFacts[url].priority >= 8
    THEN IF UrlFacts[url].normalized \in Elements(fr.priority_urls)
         THEN fr
         ELSE [fr EXCEPT !.priority_urls = Append(@, UrlFacts[url].normalized)]
    ELSE IF UrlFacts[url].normalized \in Elements(fr.regular_urls)
         THEN fr
         ELSE [fr EXCEPT !.regular_urls = Append(@, UrlFacts[url].normalized)]

\* add_url(url, priority) applied to the frontier fr
add_url(fr, url, priority) ==
    IF ~UrlFacts[url].valid
    THEN [fr EXCEPT !.urls_filtered = @ + 1]
    ELSE IF UrlFacts[url].normalized \in fr.visited \cup fr.failed_urls
    THEN fr
    ELSE IF priority + UrlFacts[url].priority >= 8
    THEN IF UrlFacts[url].normalized \in Elements(fr.priority_urls)
         THEN fr
         ELSE [fr EXCEPT !.priority_urls = Append(@, UrlFacts[url].normalized)]
    ELSE IF UrlFacts[url].normalized \in Elements(fr.regular_urls)
         THEN fr
         ELSE [fr EXCEPT !.regular_urls = Append(@, UrlFacts[url].normalized)]

\* variant of get_next_url that takes the newest URL of the regular queue
get_next_url_newest ==
    IF Len(page_summaries) >= max_pages THEN None
    ELSE IF priority_urls # <<>> THEN Head(priority_urls)
    ELSE IF regular_urls # <<>> THEN regular_urls[Len(regular_urls)]
    ELSE None

\* variant of get_next_url with no test of the page limit
get_next_url_unlimited ==
    IF priority_urls # <<>> THEN Head(priority_urls)
    ELSE IF regular_urls # <<>> THEN Head(regular_urls)
    ELSE None

\* get_next_url(): the URL returned, None when there is none
get_next_url ==
    IF Len(page_summaries) >= max_pages THEN None
    ELSE IF priority_urls # <<>> THEN Head(priority_urls)
    ELSE IF regular_urls # <<>> THEN Head(regular_urls)
    ELSE None

\* a tally per key: the count of a key, and the tally with one more of it
Count(tally, key) == IF key \in DOMAIN tally THEN tally[key] ELSE 0
OneMore(tally, key) == [k \in DOMAIN tally \cup {key} |-> Count(tally, k) + (IF k = key THEN 1 ELSE 0)]

\* a worker slot of the executor with no task
FreeSlot ==
    [pc |-> "free", url |-> None, normalized_url |-> None, links |-> <<>>,
     result |-> "none", err |-> "none", wake_at |-> 0]

\* a task that returned: result is "page" for a summary, "none" for None
Done(result) == [FreeSlot EXCEPT !.pc = "done", !.result = result]

Slots == 1..MaxWorkers

\* no crawl is in use
CrawlIdle ==
    /\ site = [pages |-> <<>>, disallowed |-> {}, robots_loaded |-> FALSE]
    /\ max_pages = 0
    /\ max_workers = 0
    /\ visited = {}
    /\ failed_urls = {}
    /\ page_summaries = <<>>
    /\ priority_urls = <<>>
    /\ regular_urls = <<>>
    /\ circuit_breakers = NewBreakers
    /\ last_request_time = 0
    /\ adaptive_delay = min_delay
    /\ stats = NewStats
    /\ m_pc = "finished"
    /\ futures = <<>>
    /\ consecutive_failures = 0
    /\ m_k = 0
    /\ completed = {}
    /\ w = [s \in Slots |-> FreeSlot]
    /\ dequeued = <<>>
    /\ releases = <<>>
    /\ queued = {}
    /\ refused = {}
    /\ passed = <<>>
    /\ fetched = <<>>

\* the scraper after __init__ on the site, run() about to enter its loop
CrawlStarts(s, pages, workers) ==
    /\ site = s
    /\ max_pages = pages
    /\ max_workers = workers
    /\ visited = {}
    /\ failed_urls = {}
    /\ page_summaries = <<>>
    /\ priority_urls = add_url(Frontier({}, {}, <<>>, <<>>, 0), base_url, 10).priority_urls
    /\ regular_urls = add_url(Frontier({}, {}, <<>>, <<>>, 0), base_url, 10).regular_urls
    /\ circuit_breakers = NewBreakers
    /\ last_request_time = 0
    /\ adaptive_delay = min_delay
    /\ stats = NewStats
    /\ m_pc = "test"
    /\ futures = <<>>
    /\ consecutive_failures = 0
    /\ m_k = 0
    /\ completed = {}
    /\ w = [t \in Slots |-> FreeSlot]
    /\ dequeued = <<>>
    /\ releases = <<>>
    /\ queued = Elements(priority_urls) \cup Elements(regular_urls)
    /\ refused = {}
    /\ passed = <<>>
    /\ fetched = <<>>

CrawlInit ==
    \/ \E s \in Sites, pages \in 1..MaxPages, workers \in 1..MaxWorkers :
            CrawlStarts(s, pages, workers)
    \/ \E pages \in 1..MaxPages : CrawlStarts(UnreadSite, pages, MaxWorkers)

ScenarioInit == CrawlStarts(ScenarioSite, 3, 2)

\* ---- run(): the main thread -------------------------------------------
\* the test of the while loop
LoopTest ==
    /\ m_pc = "test"
    /\ m_pc' = IF /\ Len(page_summaries) < max_pages
                  /\ consecutive_failures < max_consecutive_failures
               THEN "submit" ELSE "shutdown"
    /\ UNCHANGED <<site, max_pages, max_workers, frontierVars, page_summaries,
                   limiterVars, circuit_breakers, stats, futures,
                   consecutive_failures, m_k, completed, w, historyVars>>
    /\ UNCHANGED notCrawl

\* "while len(futures) < max_workers": get_next_url() returned a URL, the
\* task process_url(url) is submitted
SubmitTask ==
    /\ m_pc = "submit"
    /\ Len(futures) < max_workers
    /\ get_next_url # None
    /\ IF priority_urls # <<>>
       THEN priority_urls' = Tail(priority_urls) /\ regular_urls' = regular_urls
       ELSE priority_urls' = priority_urls /\ regular_urls' = Tail(regular_urls)
    /\ dequeued' = Append(dequeued, get_next_url)
    /\ LET slot == CHOOSE s \in Slots : w[s].pc = "free" /\ \A t \in 1..(s - 1) : w[t].pc # "free"
       IN  /\ w' = [w EXCEPT ![slot] = [FreeSlot EXCEPT !.pc = "start", !.url = get_next_url]]
           /\ futures' = Append(futures, slot)
    /\ UNCHANGED <<site, max_pages, max_workers, visited, failed_urls, page_summaries,
                   limiterVars, circuit_breakers, stats, m_pc,
                   consecutive_failures, m_k, completed, releases, queued, refused, passed, fetched>>
    /\ UNCHANGED notCrawl

\* variant of SubmitStop with no "if not futures: break"
SubmitStop_no_break ==
    /\ m_pc = "submit"
    /\ Len(futures) >= max_workers \/ get_next_url = None
    /\ m_pc' = "poll"
    /\ m_k' = 1
    /\ completed' = {}
    /\ refused' = IF Len(futures) < max_workers /\ Len(page_summaries) >= max_pages
                  THEN refused \cup {Len(priority_urls) + Len(regular_urls)}
                  ELSE refused
    /\ UNCHANGED <<site, max_pages, max_workers, frontierVars, page_summaries,
                   limiterVars, circuit_breakers, stats, futures,
                   consecutive_failures, w, dequeued, releases, queued, passed, fetched>>
    /\ UNCHANGED notCrawl

\* the submit loop ends: futures is full or get_next_url() returned None;
\* "if not futures: break"
SubmitStop ==
    /\ m_pc = "submit"
    /\ Len(futures) >= max_workers \/ get_next_url = None
    /\ m_pc' = IF futures = <<>> THEN "shutdown" ELSE "poll"
    /\ m_k' = 1
    /\ completed' = {}
    /\ refused' = IF Len(futures) < max_workers /\ Len(page_summaries) >= max_pages
                  THEN refused \cup {Len(priority_urls) + Len(regular_urls)}
                  ELSE refused
    /\ UNCHANGED <<site, max_pages, max_workers, frontierVars, page_summaries,
                   limiterVars, circuit_breakers, stats, futures,
                   consecutive_failures, w, dequeued, releases, queued, passed, fetched>>
    /\ UNCHANGED notCrawl

\* one iteration of "for future in futures"
PollFuture ==
    /\ m_pc = "poll"
    /\ m_k <= Len(futures)
    /\ m_k' = m_k + 1
    /\ IF w[futures[m_k]].pc = "done"
       THEN /\ completed' = completed \cup {futures[m_k]}
            /\ consecutive_failures' = IF w[futures[m_k]].result = "page"
                                       THEN 0 ELSE consecutive_failures + 1
       ELSE UNCHANGED <<completed, consecutive_failures>>
    /\ UNCHANGED <<site, max_pages, max_workers, frontierVars, page_summaries,
                   limiterVars, circuit_breakers, stats, m_pc, futures, w, historyVars>>
    /\ UNCHANGED notCrawl

\* the completed futures are removed; the round ends
PollEnd ==
    /\ m_pc = "poll"
    /\ m_k > Len(futures)
    /\ futures' = SelectSeq(futures, LAMBDA s : s \notin completed)
    /\ w' = [s \in Slots |-> IF s \in completed THEN FreeSlot ELSE w[s]]
    /\ completed' = {}
    /\ m_k' = 0
    /\ m_pc' = "test"
    /\ UNCHANGED <<site, max_pages, max_workers, frontierVars, page_summaries,
                   limiterVars, circuit_breakers, stats, consecutive_failures,
                   historyVars>>
    /\ UNCHANGED notCrawl

\* the executor is left: every submitted task has returned
Shutdown ==
    /\ m_pc = "shutdown"
    /\ \A s \in Slots : w[s].pc \in {"free", "done"}
    /\ m_pc' = "finished"
    /\ UNCHANGED <<site, max_pages, max_workers, frontierVars, page_summaries,
                   limiterVars, circuit_breakers, stats, futures,
                   consecutive_failures, m_k, completed, w, historyVars>>
    /\ UNCHANGED notCrawl

\* ---- process_url(url): a worker thread --------------------------------
\* variant of VisitCheck without the test of visited
VisitCheck_unchecked(slot) ==
    /\ w[slot].pc = "start"
    /\ visited' = visited \cup {UrlFacts[w[slot].url].normalized}
    /\ w' = [w EXCEPT ![slot] =
                IF ~can_fetch_url(site, w[slot].url) THEN Done("none")
                ELSE [@ EXCEPT !.pc = "delay",
                               !.normalized_url = UrlFacts[w[slot].url].normalized]]
    /\ passed' = OneMore(passed, UrlFacts[w[slot].url].normalized)
    /\ UNCHANGED <<site, max_pages, max_workers, failed_urls, priority_urls,
                   regular_urls, page_summaries, limiterVars, circuit_breakers, stats,
                   mainVars, dequeued, releases, queued, refused, fetched>>
    /\ UNCHANGED notCrawl

\* scrape_page: the URL is normalized, looked up in visited and added to it
\* under the lock; then robots.txt is asked
VisitCheck(slot) ==
    /\ w[slot].pc = "start"
    /\ visited' = visited \cup {UrlFacts[w[slot].url].normalized}
    /\ w' = [w EXCEPT ![slot] =
                IF UrlFacts[w[slot].url].normalized \in visited THEN Done("none")
                ELSE IF ~can_fetch_url(site, w[slot].url) THEN Done("none")
                ELSE [@ EXCEPT !.pc = "delay",
                               !.normalized_url = UrlFacts[w[slot].url].normalized]]
    /\ passed' = IF UrlFacts[w[slot].url].normalized \in visited THEN passed
                  ELSE OneMore(passed, UrlFacts[w[slot].url].normalized)
    /\ UNCHANGED <<site, max_pages, max_workers, failed_urls, priority_urls,
                   regular_urls, page_summaries, limiterVars, circuit_breakers, stats,
                   mainVars, dequeued, releases, queued, refused, fetched>>
    /\ UNCHANGED notCrawl

\* smart_delay: the clock, last_request_time and adaptive_delay are read and
\* the thread goes to sleep for delay_needed when that is positive
DelayRead(slot) ==
    /\ w[slot].pc = "delay"
    /\ w' = [w EXCEPT ![slot].pc = "sleep",
                      ![slot].wake_at = now + Max(0, adaptive_delay - (now - last_request_time))]
    /\ UNCHANGED <<site, max_pages, max_workers, frontierVars, page_summaries,
                   limiterVars, circuit_breakers, stats, mainVars, historyVars>>
    /\ UNCHANGED notCrawl

\* smart_delay: the sleep is over, last_request_time is stamped and the
\* request is released
Stamp(slot) ==
    /\ w[slot].pc = "sleep"
    /\ now >= w[slot].wake_at
    /\ last_request_time' = now
    /\ releases' = Append(releases, now)
    /\ w' = [w EXCEPT ![slot].pc = "call", ![slot].wake_at = 0]
    /\ UNCHANGED <<site, max_pages, max_workers, frontierVars, page_summaries,
                   adaptive_delay, circuit_breakers, stats, mainVars, dequeued, queued,
                   refused, passed, fetched>>
    /\ UNCHANGED notCrawl

\* circuit_breakers['server_error'].call: the wrapped _make_request starts
WorkerCallEnter(slot) ==
    /\ w[slot].pc = "call"
    /\ cb_admits(circuit_breakers.server_error, now)
    /\ circuit_breakers' = [circuit_breakers EXCEPT !.server_error = cb_enter(@, now)]
    /\ w' = [w EXCEPT ![slot].pc = "request"]
    /\ UNCHANGED <<site, max_pages, max_workers, frontierVars, page_summaries,
                   limiterVars, stats, mainVars, historyVars>>
    /\ UNCHANGED notCrawl

\* circuit_breakers['server_error'].call raises "Circuit breaker is OPEN"
WorkerCallRejected(slot) ==
    /\ w[slot].pc = "call"
    /\ ~cb_admits(circuit_breakers.server_error, now)
    /\ w' = [w EXCEPT ![slot].pc = "handle", ![slot].err = "circuit_open"]
    /\ UNCHANGED <<site, max_pages, max_workers, frontierVars, page_summaries,
                   limiterVars, circuit_breakers, stats, mainVars, historyVars>>
    /\ UNCHANGED notCrawl

\* _make_request: requests_made is counted and the response arrives with a
\* status that is not an error
RequestOk(slot) ==
    /\ w[slot].pc = "request"
    /\ Fetch(site, w[slot].url).status \in {"html", "other"}
    /\ fetched' = OneMore(fetched, w[slot].normalized_url)
    /\ stats' = [stats EXCEPT !.requests_made = @ + 1]
    /\ w' = [w EXCEPT ![slot].pc = "response"]
    /\ UNCHANGED <<site, max_pages, max_workers, frontierVars, page_summaries,
                   limiterVars, circuit_breakers, mainVars, dequeued, releases, queued, refused,
                   passed>>
    /\ UNCHANGED notCrawl

\* _make_request: requests_made is counted and an exception is raised for
\* the status of the response
RequestFails(slot) ==
    /\ w[slot].pc = "request"
    /\ Fetch(site, w[slot].url).status \notin {"html", "other"}
    /\ fetched' = OneMore(fetched, w[slot].normalized_url)
    /\ stats' = [stats EXCEPT !.requests_made = @ + 1]
    /\ w' = [w EXCEPT ![slot].pc = "cb_fail",
                      ![slot].err = ErrorOf(Fetch(site, w[slot].url).status)]
    /\ UNCHANGED <<site, max_pages, max_workers, frontierVars, page_summaries,
                   limiterVars, circuit_breakers, mainVars, dequeued, releases, queued, refused,
                   passed>>
    /\ UNCHANGED notCrawl

\* _process_response: the links that is_valid_url accepts
ValidLinks(links) == SelectSeq(links, LAMBDA l : UrlFacts[l].valid)

\* variant of delay_after_success with no lower limit
delay_after_success_no_floor(delay) == (delay * 9) \div 10

\* _make_request: adaptive_delay after a successful request,
\* max(adaptive_delay * 0.9, min_delay)
delay_after_success(delay) == Max((delay * 9) \div 10, min_delay)

\* _make_request: adaptive_delay is reset on success; _process_response
\* returns None for a response that is not HTML and otherwise goes through
\* the valid links
Respond(slot) ==
    /\ w[slot].pc = "response"
    /\ adaptive_delay' = delay_after_success(adaptive_delay)
    /\ w' = [w EXCEPT ![slot] =
                IF Fetch(site, w[slot].url).status = "other"
                THEN [@ EXCEPT !.pc = "cb_ok", !.result = "none"]
                ELSE [@ EXCEPT !.pc = IF ValidLinks(Fetch(site, w[slot].url).links) = <<>>
                                      THEN "cb_ok" ELSE "links",
                               !.result = "page",
                               !.links = ValidLinks(Fetch(site, w[slot].url).links)]]
    /\ UNCHANGED <<site, max_pages, max_workers, frontierVars, page_summaries,
                   last_request_time, circuit_breakers, stats, mainVars, historyVars>>
    /\ UNCHANGED notCrawl

\* _process_response: add_url(link) for the next valid link; the page is
\* returned after the last one
AddLink(slot) ==
    /\ w[slot].pc = "links"
    /\ w[slot].links # <<>>
    /\ LET fr == add_url(Frontier(visited, failed_urls, priority_urls, regular_urls,
                                  stats.urls_filtered), Head(w[slot].links), 0)
       IN  /\ priority_urls' = fr.priority_urls
           /\ regular_urls' = fr.regular_urls
           /\ stats' = [stats EXCEPT !.urls_filtered = fr.urls_filtered]
           /\ queued' = queued \cup Elements(fr.priority_urls) \cup Elements(fr.regular_urls)
    /\ w' = [w EXCEPT ![slot].links = Tail(@),
                      ![slot].pc = IF Tail(w[slot].links) = <<>> THEN "cb_ok" ELSE @]
    /\ UNCHANGED <<site, max_pages, max_workers, visited, failed_urls, page_summaries,
                   limiterVars, circuit_breakers, mainVars, dequeued, releases, refused, passed, fetched>>
    /\ UNCHANGED notCrawl

\* call(): the wrapped function returned; scrape_page returns its result and
\* process_url returns None when there is no page
BreakerSuccess(slot) ==
    /\ w[slot].pc = "cb_ok"
    /\ circuit_breakers' = [circuit_breakers EXCEPT !.server_error = cb_success(@)]
    /\ w' = [w EXCEPT ![slot] = IF @.result = "page" THEN [@ EXCEPT !.pc = "append"]
                                ELSE Done("none")]
    /\ UNCHANGED <<site, max_pages, max_workers, frontierVars, page_summaries,
                   limiterVars, stats, mainVars, historyVars>>
    /\ UNCHANGED notCrawl

\* process_url: the summary is appended to page_summaries under the lock
AppendSummary(slot) ==
    /\ w[slot].pc = "append"
    /\ page_summaries' = Append(page_summaries, w[slot].url)
    /\ w' = [w EXCEPT ![slot] = Done("page")]
    /\ UNCHANGED <<site, max_pages, max_workers, frontierVars, limiterVars,
                   circuit_breakers, stats, mainVars, historyVars>>
    /\ UNCHANGED notCrawl

\* call(): the wrapped function raised
BreakerFailure(slot) ==
    /\ w[slot].pc = "cb_fail"
    /\ circuit_breakers' = [circuit_breakers EXCEPT !.server_error = cb_failure(@, now)]
    /\ w' = [w EXCEPT ![slot].pc = "handle"]
    /\ UNCHANGED <<site, max_pages, max_workers, frontierVars, page_summaries,
                   limiterVars, stats, mainVars, historyVars>>
    /\ UNCHANGED notCrawl

\* scrape_page, except: the error is counted and the URL joins failed_urls
HandleError(slot) ==
    /\ w[slot].pc = "handle"
    /\ stats' = [stats EXCEPT !.errors_encountered = @ + 1]
    /\ failed_urls' = failed_urls \cup {w[slot].normalized_url}
    /\ w' = [w EXCEPT ![slot].pc = "adapt"]
    /\ UNCHANGED <<site, max_pages, max_workers, visited, priority_urls, regular_urls,
                   page_summaries, limiterVars, circuit_breakers, mainVars, historyVars>>
    /\ UNCHANGED notCrawl

\* scrape_page, except: the branch on the text of the error; returns None
HandleKind(slot) ==
    /\ w[slot].pc = "adapt"
    /\ IF w[slot].err = "circuit_open"
       THEN /\ stats' = [stats EXCEPT !.circuit_breaker_trips = @ + 1]
            /\ adaptive_delay' = Min((adaptive_delay * 3) \div 2, 10000)
       ELSE IF w[slot].err = "rate_limited"
       THEN /\ stats' = [stats EXCEPT !.rate_limit_hits = @ + 1]
            /\ adaptive_delay' = Min(adaptive_delay * 2, 15000)
       ELSE UNCHANGED <<stats, adaptive_delay>>
    /\ w' = [w EXCEPT ![slot] = Done("none")]
    /\ UNCHANGED <<site, max_pages, max_workers, frontierVars, page_summaries,
                   last_request_time, circuit_breakers, mainVars, historyVars>>
    /\ UNCHANGED notCrawl

\* the times something waits for: the end of a worker's sleep, the end of
\* the recovery timeout of the open breaker
WaitedTimes ==
    {w[s].wake_at : s \in {t \in Slots : w[t].pc = "sleep"}}
    \cup (IF circuit_breakers.server_error.state = "open"
          THEN {circuit_breakers.server_error.last_failure_time
                  + circuit_breakers.server_error.recovery_timeout + 1}
          ELSE {})

\* time passes while the crawl runs, up to a time something waits for
TimePasses ==
    /\ m_pc # "finished"
    /\ \E t \in WaitedTimes : t > now /\ now' = t
    /\ UNCHANGED <<crawlVars, urlVars, bVars, yVars, lockVars, retryVars, searchVars, queryVars, configVars>>

CrawlNext ==
    \/ LoopTest \/ SubmitTask \/ SubmitStop \/ PollFuture \/ PollEnd \/ Shutdown
    \/ \E slot \in Slots :
          \/ VisitCheck(slot) \/ DelayRead(slot) \/ Stamp(slot)
          \/ WorkerCallEnter(slot) \/ WorkerCallRejected(slot)
          \/ RequestOk(slot) \/ RequestFails(slot) \/ Respond(slot)
          \/ AddLink(slot) \/ BreakerSuccess(slot)
          \/ AppendSummary(slot) \/ BreakerFailure(slot)
          \/ HandleError(slot) \/ HandleKind(slot)
    \/ TimePasses

\* the steps of the main thread in run()
MainNext == LoopTest \/ SubmitTask \/ SubmitStop \/ PollFuture \/ PollEnd \/ Shutdown

\* the steps of the executor thread that runs the task of a slot
WorkerNext(slot) ==
    \/ VisitCheck(slot) \/ DelayRead(slot) \/ Stamp(slot)
    \/ WorkerCallEnter(slot) \/ WorkerCallRejected(slot)
    \/ RequestOk(slot) \/ RequestFails(slot) \/ Respond(slot)
    \/ AddLink(slot) \/ BreakerSuccess(slot)
    \/ AppendSummary(slot) \/ BreakerFailure(slot)
    \/ HandleError(slot) \/ HandleKind(slot)

\* every thread that can take a step eventually takes one (the main thread
\* and the executor threads are operating-system threads; session.get has a
\* timeout and every sleep is finite), and the clock advances
CrawlFairness ==
    /\ WF_vars(MainNext)
    /\ \A slot \in Slots : WF_vars(WorkerNext(slot))
    /\ WF_vars(TimePasses)

\* the crawl when every fetch succeeds
ScenarioNext ==
    \/ LoopTest \/ SubmitTask \/ SubmitStop \/ PollFuture \/ PollEnd \/ Shutdown
    \/ \E slot \in Slots :
          \/ VisitCheck(slot) \/ DelayRead(slot) \/ Stamp(slot)
          \/ WorkerCallEnter(slot)
          \/ RequestOk(slot) \/ Respond(slot)
          \/ AddLink(slot) \/ BreakerSuccess(slot)
          \/ AppendSummary(slot)
    \/ TimePasses

(***************************************************************************)
(* self.lock: the regions of the code that touch the shared crawl state or *)
(* wait, with the 'with self.lock' blocks they are in.                     *)
(***************************************************************************)
NoThread == 0 - 1

\* the main thread of run() and the executor threads
MainThread == 0
Threads == 0..MaxWorkers

Region(locked, writes, waits, next) ==
    [locked |-> locked, writes |-> writes, waits |-> waits, next |-> next]

\* per region: whether it is a 'with self.lock' block, the shared objects it
\* mutates, what it waits for, and the regions that can follow ("end": the
\* task or the call is over)
Regions ==
    [\* scrape_page: visited test and add
     visit |-> Region(TRUE, {"visited"}, "none", {"robots", "end"}),
     \* scrape_page: can_fetch_url
     robots |-> Region(FALSE, {}, "robots", {"delay", "end"}),
     \* scrape_page: smart_delay; the breaker then admits or rejects
     delay |-> Region(FALSE, {}, "sleep", {"count", "failed"}),
     \* _make_request: requests_made
     count |-> Region(TRUE, {"stats"}, "none", {"request"}),
     \* _make_request: session.get
     request |-> Region(FALSE, {}, "request", {"enqueue", "append", "failed", "end"}),
     \* add_url: the frontier test and the append
     enqueue |-> Region(TRUE, {"priority_urls", "regular_urls"}, "none", {"enqueue", "append"}),
     \* scrape_page, except: errors_encountered and failed_urls
     failed |-> Region(TRUE, {"stats", "failed_urls"}, "none", {"trip", "rate_hit", "end"}),
     \* scrape_page, except: circuit_breaker_trips
     trip |-> Region(TRUE, {"stats"}, "none", {"end"}),
     \* scrape_page, except: rate_limit_hits
     rate_hit |-> Region(TRUE, {"stats"}, "none", {"end"}),
     \* process_url: page_summaries.append
     append |-> Region(TRUE, {"page_summaries"}, "none", {"end"}),
     \* get_next_url: the popleft of either queue
     dequeue |-> Region(TRUE, {"priority_urls", "regular_urls"}, "none", {"dequeue", "progress", "end"}),
     \* run: the progress line reads page_summaries and the queues
     progress |-> Region(TRUE, {}, "none", {"progress", "end"})]

\* variant of HoldsLock in which session.get is inside the lock too
HoldsLock_in_request(region) == Regions[region].locked \/ region = "request"

\* the region is executed with self.lock held
HoldsLock(region) == Regions[region].locked

\* the first region of a round of the main thread and of a task
FirstRegion(t) == IF t = MainThread THEN "dequeue" ELSE "visit"

\* no thread is in use
LockIdle ==
    /\ lock = NoThread
    /\ l_at = [t \in Threads |-> "none"]
    /\ l_in = [t \in Threads |-> FALSE]

LockInit ==
    /\ lock = NoThread
    /\ l_at = [t \in Threads |-> "idle"]
    /\ l_in = [t \in Threads |-> FALSE]

\* the thread comes to its first region
StartRegion(t) ==
    /\ l_at[t] = "idle"
    /\ l_at' = [l_at EXCEPT ![t] = FirstRegion(t)]
    /\ UNCHANGED <<lock, l_in>>
    /\ UNCHANGED notLock

\* "with self.lock:": the thread takes the lock when it is free
Acquire(t) ==
    /\ l_at[t] \in DOMAIN Regions
    /\ ~l_in[t]
    /\ HoldsLock(l_at[t])
    /\ lock = NoThread
    /\ lock' = t
    /\ l_in' = [l_in EXCEPT ![t] = TRUE]
    /\ UNCHANGED l_at
    /\ UNCHANGED notLock

\* the thread starts a region that is not in a 'with self.lock' block
EnterUnlocked(t) ==
    /\ l_at[t] \in DOMAIN Regions
    /\ ~l_in[t]
    /\ ~HoldsLock(l_at[t])
    /\ l_in' = [l_in EXCEPT ![t] = TRUE]
    /\ UNCHANGED <<lock, l_at>>
    /\ UNCHANGED notLock

\* the region is over: the lock is released at the end of a 'with' block and
\* the thread goes on to a region that can follow
Leave(t) ==
    /\ l_at[t] \in DOMAIN Regions
    /\ l_in[t]
    /\ \E n \in Regions[l_at[t]].next :
          l_at' = [l_at EXCEPT ![t] = IF n = "end" THEN "idle" ELSE n]
    /\ l_in' = [l_in EXCEPT ![t] = FALSE]
    /\ lock' = IF HoldsLock(l_at[t]) THEN NoThread ELSE lock
    /\ UNCHANGED notLock

LockNext == \E t \in Threads : StartRegion(t) \/ Acquire(t) \/ EnterUnlocked(t) \/ Leave(t)

(***************************************************************************)
(* execute_with_retry (src/youtube.py)                                     *)
(***************************************************************************)
MaxTries == 3

\* backoff: float = 2.0, in seconds
backoff == 2

\* _is_retryable_http_error(err)
is_retryable_http_error(err) == err.status \in {500, 502, 503, 504}

RECURSIVE Pow(_, _)
Pow(b, n) == IF n = 0 THEN 1 ELSE b * Pow(b, n - 1)

\* no call is in use
RetryIdle ==
    /\ r_tries = 0
    /\ r_attempt = 0
    /\ r_pc = "none"
    /\ r_last_err = None
    /\ r_outcomes = <<>>
    /\ r_sleeps = <<>>
    /\ r_result = None

\* execute_with_retry(request, tries) is entered
RetryInit ==
    /\ r_tries \in 0..MaxTries
    /\ r_attempt = 0
    /\ r_pc = "execute"
    /\ r_last_err = None
    /\ r_outcomes = <<>>
    /\ r_sleeps = <<>>
    /\ r_result = None

\* "return request.execute()"
ExecuteReturns ==
    /\ r_pc = "execute"
    /\ r_attempt < r_tries
    /\ r_outcomes' = Append(r_outcomes, Returned200)
    /\ r_result' = Returned200
    /\ r_pc' = "returned"
    /\ UNCHANGED <<r_tries, r_attempt, r_last_err, r_sleeps>>
    /\ UNCHANGED notRetry

\* "except HttpError as e": raised again unless _is_retryable_http_error
ExecuteRaisesHttp ==
    /\ r_pc = "execute"
    /\ r_attempt < r_tries
    /\ \E e \in HttpErrors :
          /\ r_outcomes' = Append(r_outcomes, e)
          /\ IF ~is_retryable_http_error(e)
             THEN /\ r_result' = e
                  /\ r_pc' = "raised"
                  /\ UNCHANGED r_last_err
             ELSE /\ r_last_err' = e
                  /\ r_pc' = "backoff"
                  /\ UNCHANGED r_result
    /\ UNCHANGED <<r_tries, r_attempt, r_sleeps>>
    /\ UNCHANGED notRetry

\* "except (socket.timeout, TimeoutError, OSError) as e"
ExecuteRaisesNetwork ==
    /\ r_pc = "execute"
    /\ r_attempt < r_tries
    /\ \E e \in NetworkErrors :
          /\ r_outcomes' = Append(r_outcomes, e)
          /\ r_last_err' = e
    /\ r_pc' = "backoff"
    /\ UNCHANGED <<r_tries, r_attempt, r_sleeps, r_result>>
    /\ UNCHANGED notRetry

\* "except Exception as e"
ExecuteRaisesOther ==
    /\ r_pc = "execute"
    /\ r_attempt < r_tries
    /\ \E e \in OtherErrors :
          /\ r_outcomes' = Append(r_outcomes, e)
          /\ r_last_err' = e
    /\ r_pc' = "backoff"
    /\ UNCHANGED <<r_tries, r_attempt, r_sleeps, r_result>>
    /\ UNCHANGED notRetry

\* "if attempt < tries - 1: time.sleep(backoff ** attempt)", then the next
\* round of the loop
Backoff ==
    /\ r_pc = "backoff"
    /\ r_sleeps' = IF r_attempt < r_tries - 1
                   THEN Append(r_sleeps, Pow(backoff, r_attempt))
                   ELSE r_sleeps
    /\ r_attempt' = r_attempt + 1
    /\ r_pc' = "execute"
    /\ UNCHANGED <<r_tries, r_last_err, r_outcomes, r_result>>
    /\ UNCHANGED notRetry

\* "raise last_err" after the loop
RaiseLast ==
    /\ r_pc = "execute"
    /\ r_attempt >= r_tries
    /\ r_result' = IF r_last_err = None THEN RaiseNone ELSE r_last_err
    /\ r_pc' = "raised"
    /\ UNCHANGED <<r_tries, r_attempt, r_last_err, r_outcomes, r_sleeps>>
    /\ UNCHANGED notRetry

RetryNext ==
    \/ ExecuteReturns \/ ExecuteRaisesHttp \/ ExecuteRaisesNetwork
    \/ ExecuteRaisesOther \/ Backoff \/ RaiseLast

(***************************************************************************)
(* search_video_ids (src/youtube.py): the searches of one question         *)
(***************************************************************************)
MaxQueries == 2
MaxResults == 2
MaxResponseItems == 2

\* BRAND_ALIASES.get(brand_lc, [brand_lc])
BRAND_ALIASES(brand_lc) ==
    IF brand_lc = <<"b","r","o","t","h","e","r"," ","v","e","l","l","i","e","s">> THEN << <<"b","r","o","t","h","e","r"," ","v","e","l","l","i","e","s">>, <<"a","u","r","o","r","a"," ","j","a","m","e","s">>, <<"b","v","e","l","l","i","e","s">> >>
    ELSE IF brand_lc = <<"a","b","l","e">> THEN << <<"a","b","l","e"," ","c","a","r","r","y">>, <<"a","b","l","e"," ","b","a","g","s">>, <<"a","b","l","e"," ","b","r","a","n","d">>, <<"a","b","l","e"," ","l","e","a","t","h","e","r">> >>
    ELSE IF brand_lc = <<"s","o","k","o">> THEN << <<"s","o","k","o"," ","j","e","w","e","l","r","y">>, <<"s","h","o","p"," ","s","o","k","o">>, <<"s","o","k","o"," ","k","e","n","y","a">> >>
    ELSE IF brand_lc = <<"a","c","c","o","m","p","a","n","y">> THEN << <<"a","c","c","o","m","p","a","n","y">>, <<"a","c","c","o","m","p","a","n","y","u","s">>, <<"a","c","c","o","m","p","a","n","y"," ","s","h","o","p">>, <<"a","c","c","o","m","p","a","n","y"," ","f","a","i","r"," ","t","r","a","d","e">> >>
    ELSE IF brand_lc = <<"m","z"," ","f","a","i","r"," ","t","r","a","d","e">> THEN << <<"m","z"," ","f","a","i","r"," ","t","r","a","d","e">>, <<"m","z"," ","f","a","i","r","t","r","a","d","e">>, <<"m","z"," ","m","a","d","e"," ","b","y">> >>
    ELSE <<brand_lc>>

\* NEGATIVE_KWS.get(brand_lc, [])
NEGATIVE_KWS(brand_lc) ==
    IF brand_lc = <<"s","o","k","o">> THEN << <<"g","r","a","n","d"," ","s","e","i","k","o">>, <<"s","e","i","k","o">>, <<"b","u","t","c","h","e","r">>, <<"r","e","s","t","a","u","r","a","n","t">>, <<"r","o","o","f","t","o","p">> >>
    ELSE IF brand_lc = <<"a","c","c","o","m","p","a","n","y">> THEN << <<"b","o","b"," ","s","e","g","e","r">>, <<"s","o","n","g">>, <<"r","e","a","c","t","i","o","n">>, <<"k","n","e","e","c","a","p">>, <<"f","i","l","m">>, <<"m","o","v","i","e">> >>
    ELSE IF brand_lc = <<"m","z"," ","f","a","i","r"," ","t","r","a","d","e">> THEN << <<"z","a","i","n","u","d","d","i","n">>, <<"m","z"," ","k","h">>, <<"k",".","h"," ","z","a","i","n","u","d","d","i","n">>, <<"s","e","r","m","o","n">> >>
    ELSE <<>>

Snippet(title, description, channelTitle) ==
    [title |-> title, description |-> description, channelTitle |-> channelTitle]

\* f"{title} {desc} {channel}"
SnippetText(sn) == tolc(sn.title) \o <<" ">> \o tolc(sn.description) \o <<" ">> \o tolc(sn.channelTitle)

\* the two tests of is_video_on_topic on the text
TextOnTopic(text, brand_lc) ==
    /\ \E i \in 1..Len(BRAND_ALIASES(brand_lc)) : Contains(text, BRAND_ALIASES(brand_lc)[i])
    /\ ~\E i \in 1..Len(NEGATIVE_KWS(brand_lc)) : Contains(text, NEGATIVE_KWS(brand_lc)[i])

\* is_video_on_topic(video_snippet, brand)
is_video_on_topic(video_snippet, brand) == TextOnTopic(SnippetText(video_snippet), tolc(brand))

\* the brand of the competitor
SearchBrand == <<"S","o","k","o">>

\* snippets of search results: the alias in the title, the alias only in the
\* channel title, the alias next to a negative keyword, no alias, and the
\* snippet of an item that has none (item.get("snippet", {}))
SnippetAlias == Snippet(<<"S","O","K","O"," "," ","J","e","w","e","l","r","y"," ","h","a","u","l">>, <<"m","y"," ","f","a","v","o","u","r","i","t","e","s">>, <<"S","t","y","l","e"," ","D","i","a","r","y">>)
SnippetChannel == Snippet(<<"S","p","r","i","n","g"," ","h","a","u","l">>, <<>>, <<"S","h","o","p"," ","S","o","k","o">>)
SnippetNegative == Snippet(<<"G","r","a","n","d"," ","S","e","i","k","o"," ","a","n","d"," ","S","o","k","o"," ","K","e","n","y","a">>, <<>>, <<"W","a","t","c","h","e","s">>)
SnippetOther == Snippet(<<"C","o","o","k","i","n","g"," ","a","t"," ","h","o","m","e">>, <<"s","o","k","o">>, <<"F","o","o","d">>)
NoSnippet == Snippet(<<>>, <<>>, <<>>)

\* an item of a search response; videoId None: item["id"]["videoId"] raises
Item(videoId, snippet) == [videoId |-> videoId, snippet |-> snippet]

SearchItems ==
    {Item(<<"v","1">>, SnippetAlias), Item(<<"v","2">>, SnippetChannel), Item(<<"v","3">>, SnippetNegative),
     Item(<<"v","4">>, SnippetOther), Item(None, SnippetAlias)}

\* the items of the fallback search, made with part="id"
FallbackItems == {Item(<<"v","3">>, NoSnippet), Item(<<"v","4">>, NoSnippet), Item(None, NoSnippet)}

\* the responses of a search that asked for maxResults items
ResponsesOf(items, maxResults) ==
    UNION {[1..n -> items] : n \in 0..Min(MaxResponseItems, Max(maxResults, 0))}

\* what a search did: it returned a response or execute_with_retry raised
Answered(items) == [ok |-> TRUE, items |-> items]
Failed == [ok |-> FALSE, items |-> <<>>]

\* "for item in resp.get("items", [])": found after the loop, and whether
\* item["id"]["videoId"] raised on the way
RECURSIVE ScanItems(_, _, _)
ScanItems(items, found, brand) ==
    IF items = <<>> THEN [found |-> found, raised |-> FALSE]
    ELSE IF ~is_video_on_topic(Head(items).snippet, brand)
    THEN ScanItems(Tail(items), found, brand)
    ELSE IF Head(items).videoId = None
    THEN [found |-> found, raised |-> TRUE]
    ELSE ScanItems(Tail(items), Append(found, Head(items).videoId), brand)

\* list(dict.fromkeys(found))
RECURSIVE Dedupe(_)
Dedupe(found) ==
    IF found = <<>> THEN <<>>
    ELSE <<Head(found)>> \o Dedupe(SelectSeq(Tail(found), LAMBDA v : v # Head(found)))

\* no search is in use
SearchIdle ==
    /\ s_queries = 0
    /\ s_max_results = 0
    /\ s_pc = "none"
    /\ s_k = 0
    /\ s_found = <<>>
    /\ s_answers = <<>>
    /\ s_fallback = None
    /\ s_out = <<>>

\* search_video_ids(queries, brand, max_results) is entered
SearchInit ==
    /\ s_queries \in 1..MaxQueries
    /\ s_max_results \in 0..MaxResults
    /\ s_pc = "query"
    /\ s_k = 1
    /\ s_found = <<>>
    /\ s_answers = <<>>
    /\ s_fallback = None
    /\ s_out = <<>>

\* one round of "for q in queries": the search returned; the items on topic
\* are collected; "if len(found) >= max_results: break" unless an item raised
SearchReturns ==
    /\ s_pc = "query"
    /\ \E resp \in ResponsesOf(SearchItems, Min(10, s_max_results)) :
          /\ s_answers' = Append(s_answers, Answered(resp))
          /\ s_found' = ScanItems(resp, s_found, SearchBrand).found
          /\ s_pc' = IF \/ /\ ~ScanItems(resp, s_found, SearchBrand).raised
                           /\ Len(ScanItems(resp, s_found, SearchBrand).found) >= s_max_results
                        \/ s_k = s_queries
                     THEN "fallback" ELSE "query"
    /\ s_k' = s_k + 1
    /\ UNCHANGED <<s_queries, s_max_results, s_fallback, s_out>>
    /\ UNCHANGED notSearch

\* variant of SearchFails that leaves the loop
SearchFails_stops ==
    /\ s_pc = "query"
    /\ s_answers' = Append(s_answers, Failed)
    /\ s_pc' = "fallback"
    /\ s_k' = s_k + 1
    /\ UNCHANGED <<s_queries, s_max_results, s_found, s_fallback, s_out>>
    /\ UNCHANGED notSearch

\* one round of "for q in queries": execute_with_retry raised; "continue"
SearchFails ==
    /\ s_pc = "query"
    /\ s_answers' = Append(s_answers, Failed)
    /\ s_pc' = IF s_k = s_queries THEN "fallback" ELSE "query"
    /\ s_k' = s_k + 1
    /\ UNCHANGED <<s_queries, s_max_results, s_found, s_fallback, s_out>>
    /\ UNCHANGED notSearch

\* "if not found": found is not empty, no fallback search
FallbackSkipped ==
    /\ s_pc = "fallback"
    /\ s_found # <<>>
    /\ s_pc' = "return"
    /\ UNCHANGED <<s_queries, s_max_results, s_k, s_found, s_answers, s_fallback, s_out>>
    /\ UNCHANGED notSearch

\* the fallback search returned: found is the IDs of its items, unless an
\* item has none ("except Exception: pass")
FallbackReturns ==
    /\ s_pc = "fallback"
    /\ s_found = <<>>
    /\ \E resp \in ResponsesOf(FallbackItems, s_max_results) :
          /\ s_fallback' = Answered(resp)
          /\ s_found' = IF \E i \in 1..Len(resp) : resp[i].videoId = None
                        THEN s_found
                        ELSE [i \in 1..Len(resp) |-> resp[i].videoId]
    /\ s_pc' = "return"
    /\ UNCHANGED <<s_queries, s_max_results, s_k, s_answers, s_out>>
    /\ UNCHANGED notSearch

\* the fallback search raised: "except Exception: pass"
FallbackFails ==
    /\ s_pc = "fallback"
    /\ s_found = <<>>
    /\ s_fallback' = Failed
    /\ s_pc' = "return"
    /\ UNCHANGED <<s_queries, s_max_results, s_k, s_found, s_answers, s_out>>
    /\ UNCHANGED notSearch

\* "return list(dict.fromkeys(found))[:max_results]"
SearchReturn ==
    /\ s_pc = "return"
    /\ s_out' = Take(Dedupe(s_found), Min(Len(Dedupe(s_found)), s_max_results))
    /\ s_pc' = "done"
    /\ UNCHANGED <<s_queries, s_max_results, s_k, s_found, s_answers, s_fallback>>
    /\ UNCHANGED notSearch

SearchNext ==
    \/ SearchReturns \/ SearchFails \/ FallbackSkipped \/ FallbackReturns
    \/ FallbackFails \/ SearchReturn

(***************************************************************************)
(* build_search_queries (src/youtube.py): the queries of one question      *)
(***************************************************************************)
MaxQ == 14

STOPWORDS ==
    {
      <<"t","h","e">>, <<"a">>, <<"a","n">>, <<"a","n","d">>, <<"o","r">>, <<"f","o","r">>, <<"t","o">>, <<"o","f">>, <<"i","n">>, <<"o","n">>,
      <<"w","i","t","h">>, <<"b","y">>, <<"f","r","o","m">>, <<"i","n","t","o">>, <<"a","t">>, <<"o","v","e","r">>, <<"u","n","d","e","r">>,
      <<"a","b","o","u","t">>, <<"a","s">>, <<"i","s">>, <<"a","r","e">>, <<"w","a","s">>, <<"w","e","r","e">>, <<"b","e">>, <<"b","e","e","n">>,
      <<"b","e","i","n","g">>, <<"t","h","i","s">>, <<"t","h","a","t">>, <<"t","h","o","s","e">>, <<"t","h","e","s","e">>, <<"i","t">>,
      <<"i","t","s">>, <<"h","o","w">>, <<"w","h","a","t">>, <<"w","h","y">>, <<"w","h","e","n">>, <<"w","h","e","r","e">>, <<"w","h","o">>,
      <<"w","h","i","c","h">>, <<"d","o","e","s">>, <<"d","o">>, <<"d","i","d">>, <<"h","a","s">>, <<"h","a","v","e">>, <<"h","a","d">>,
      <<"t","h","e","i","r">>, <<"t","h","e","m">>, <<"t","h","e","y">>, <<"y","o","u">>, <<"w","e">>, <<"i">>, <<"y","o","u","r">>, <<"o","u","r">>,
      <<"o","u","r","s">>, <<"h","i","s">>, <<"h","e","r">>, <<"h","e","r","s">>, <<"h","i","m">>, <<"h","e">>, <<"s","h","e">>,
      <<"b","r","a","n","d">>, <<"b","r","a","n","d","s">>, <<"p","r","o","d","u","c","t">>, <<"p","r","o","d","u","c","t","s">>,
      <<"p","r","i","c","i","n","g">>, <<"p","r","i","c","e">>, <<"c","o","m","p","a","r","e">>, <<"c","o","m","p","a","r","i","s","o","n">>,
      <<"u","n","i","q","u","e">>, <<"s","e","l","l","i","n","g">>, <<"p","r","o","p","o","s","i","t","i","o","n">>, <<"u","s","p">>,
      <<"r","e","v","i","e","w","s">>, <<"r","e","v","i","e","w">>, <<"t","e","s","t","i","m","o","n","i","a","l">>,
      <<"t","e","s","t","i","m","o","n","i","a","l","s">>, <<"p","a","i","n">>, <<"p","o","i","n","t","s">>
    }

CATEGORY_KWS ==
    <<
      <<"b","a","g">>, <<"l","e","a","t","h","e","r">>, <<"h","a","n","d","b","a","g">>, <<"w","a","l","l","e","t">>, <<"t","o","t","e">>,
      <<"b","a","c","k","p","a","c","k">>, <<"j","e","w","e","l","r","y">>, <<"e","a","r","r","i","n","g","s">>, <<"n","e","c","k","l","a","c","e">>,
      <<"b","r","a","c","e","l","e","t">>, <<"r","i","n","g">>, <<"f","a","i","r"," ","t","r","a","d","e">>, <<"a","r","t","i","s","a","n">>,
      <<"c","r","a","f","t">>, <<"h","a","n","d","c","r","a","f","t","e","d">>, <<"e","t","h","i","c","a","l">>,
      <<"s","u","s","t","a","i","n","a","b","l","e">>, <<"r","e","v","i","e","w">>, <<"u","n","b","o","x","i","n","g">>, <<"b","r","a","n","d">>,
      <<"s","t","o","r","y">>, <<"p","r","i","c","i","n","g">>, <<"p","r","i","c","e">>, <<"t","e","s","t","i","m","o","n","i","a","l">>
    >>

\* the characters of [a-zA-Z\-]
TokenChars == Letters \cup {"-"}

\* the last index of the run of token characters that holds index i
RECURSIVE RunEnd(_, _)
RunEnd(s, i) == IF i < Len(s) /\ s[i + 1] \in TokenChars THEN RunEnd(s, i + 1) ELSE i

\* re.findall(r"[a-zA-Z][a-zA-Z\-]+", s), scanning from index i
RECURSIVE FindTokens(_, _)
FindTokens(s, i) ==
    IF i > Len(s) THEN <<>>
    ELSE IF s[i] \in Letters /\ i < Len(s) /\ s[i + 1] \in TokenChars
         THEN <<SubSeq(s, i, RunEnd(s, i))>> \o FindTokens(s, RunEnd(s, i) + 1)
         ELSE FindTokens(s, i + 1)

\* extract_keywords(text)
extract_keywords(text) ==
    SelectSeq(FindTokens(tolc(text), 1), LAMBDA t : t \notin STOPWORDS /\ Len(t) > 2)

\* urlparse(url).hostname or "": the netloc without user and port, lowered
hostname(netloc) == Lower(CutAt(Drop(netloc, RFind(netloc, "@") + 1), ":").before)

\* the last two labels of the host
LastTwo(labels) == Join(Drop(labels, Max(1, Len(labels) - 1)), <<".">>)

\* domain_from_url(url)
domain_from_url(url) ==
    IF hostname(urlparse(url).netloc) = <<>> THEN <<>>
    ELSE LastTwo(Split(hostname(urlparse(url).netloc), "."))

\* f'"{s}"'
Quoted(s) == <<"\"">> \o s \o <<"\"">>

\* f'"{alias}" {kt} review'
KeywordQuery(alias, kt) == Quoted(alias) \o <<" ">> \o kt \o <<" ","r","e","v","i","e","w">>

\* the five fixed queries of an alias
SuffixQueries(alias) ==
    << Quoted(alias) \o <<" ","t","e","s","t","i","m","o","n","i","a","l">>, Quoted(alias) \o <<" ","c","u","s","t","o","m","e","r"," ","r","e","v","i","e","w">>, Quoted(alias) \o <<" ","p","r","i","c","i","n","g">>,
       Quoted(alias) \o <<" ","a","r","t","i","s","a","n">>, Quoted(alias) \o <<" ","s","u","s","t","a","i","n","a","b","l","e">> >>

\* one round of 'for alias in aliases'
AliasQueries(alias, key_terms) ==
    [i \in 1..Len(key_terms) |-> KeywordQuery(alias, key_terms[i])] \o SuffixQueries(alias)

RECURSIVE AllAliasQueries(_, _)
AllAliasQueries(aliases, key_terms) ==
    IF aliases = <<>> THEN <<>>
    ELSE AliasQueries(Head(aliases), key_terms) \o AllAliasQueries(Tail(aliases), key_terms)

\* s[:n]
Prefix(s, n) == SubSeq(s, 1, Min(n, Len(s)))

\* key_terms = (qk[:4] + CATEGORY_KWS)[:8]
KeyTerms(question) == Prefix(Prefix(extract_keywords(question), 4) \o CATEGORY_KWS, 8)

\* if dom: queries.append(f'"{brand}" "{dom}"')
DomainQuery(brand, dom) ==
    IF dom = <<>> THEN <<>> ELSE << Quoted(brand) \o <<" ">> \o Quoted(dom) >>

\* the list queries before it is de-duplicated
GeneratedQueries(brand, website, question) ==
    AllAliasQueries(BRAND_ALIASES(tolc(brand)), KeyTerms(question))
        \o DomainQuery(brand, domain_from_url(website))

\* a brand with three aliases and a brand without aliases
QueryBrands == { <<"S","o","k","o">>, <<"A","c","m","e"," "," ","G","o","o","d","s">> }

\* a site with a www host, no site, a site with user, port and three labels
QueryWebsites == { <<"h","t","t","p","s",":","/","/","w","w","w",".","s","h","o","p","s","o","k","o",".","c","o","m","/","c","o","l","l","e","c","t","i","o","n","s">>, <<>>, <<"h","t","t","p",":","/","/","s","h","o","p","@","S","t","o","r","e",".","A","C","M","E",".","c","o",".","u","k",":","8","0","8","0","/">> }

\* a question whose keywords repeat category keywords, a question without
\* keywords, a question with more than four keywords
QueryQuestions ==
    { <<"H","o","w"," ","d","u","r","a","b","l","e"," ","i","s"," ","t","h","e"," ","l","e","a","t","h","e","r"," ","b","a","g","?">>, <<"W","h","a","t"," ","i","s"," ","i","t","?">>,
      <<"I","s"," ","e","c","o","-","f","r","i","e","n","d","l","y"," ","p","a","c","k","a","g","i","n","g"," ","w","o","r","t","h"," ","i","t"," ","f","o","r"," ","a"," ","t","o","t","e"," ","b","a","g"," ","b","r","a","n","d">> }

QueryIdle ==
    /\ bq_brand = <<>> /\ bq_website = <<>> /\ bq_question = <<>> /\ bq_max_q = 0
    /\ bq_pc = "idle" /\ bq_queries = <<>> /\ bq_i = 0 /\ bq_deduped = <<>> /\ bq_out = None

\* build_search_queries(brand, website, question, max_q) is called
QueryInit ==
    /\ bq_brand \in QueryBrands /\ bq_website \in QueryWebsites /\ bq_question \in QueryQuestions
    /\ bq_max_q \in 0..MaxQ
    /\ bq_pc = "build" /\ bq_queries = <<>> /\ bq_i = 0 /\ bq_deduped = <<>> /\ bq_out = None

\* the queries are generated
BuildQueries ==
    /\ bq_pc = "build"
    /\ bq_queries' = GeneratedQueries(bq_brand, bq_website, bq_question)
    /\ bq_i' = 1
    /\ bq_pc' = "dedupe"
    /\ UNCHANGED <<bq_brand, bq_website, bq_question, bq_max_q, bq_deduped, bq_out, notQuery>>

\* one round of 'for q in queries' with q not in seen
DedupeKeep ==
    /\ bq_pc = "dedupe" /\ bq_i <= Len(bq_queries)
    /\ bq_queries[bq_i] \notin Elements(bq_deduped)
    /\ bq_deduped' = Append(bq_deduped, bq_queries[bq_i])
    /\ bq_i' = bq_i + 1
    /\ bq_pc' = IF Len(bq_deduped') >= bq_max_q THEN "return" ELSE "dedupe"
    /\ UNCHANGED <<bq_brand, bq_website, bq_question, bq_max_q, bq_queries, bq_out, notQuery>>

\* one round of 'for q in queries' with q in seen
DedupeDrop ==
    /\ bq_pc = "dedupe" /\ bq_i <= Len(bq_queries)
    /\ bq_queries[bq_i] \in Elements(bq_deduped)
    /\ bq_i' = bq_i + 1
    /\ bq_pc' = IF Len(bq_deduped) >= bq_max_q THEN "return" ELSE "dedupe"
    /\ UNCHANGED <<bq_brand, bq_website, bq_question, bq_max_q, bq_queries, bq_deduped, bq_out, notQuery>>

\* return deduped, after the break or at the end of the list
QueryReturn ==
    /\ bq_pc = "return" \/ (bq_pc = "dedupe" /\ bq_i > Len(bq_queries))
    /\ bq_out' = bq_deduped
    /\ bq_pc' = "done"
    /\ UNCHANGED <<bq_brand, bq_website, bq_question, bq_max_q, bq_queries, bq_i, bq_deduped, notQuery>>

QueryNext == BuildQueries \/ DedupeKeep \/ DedupeDrop \/ QueryReturn

(***************************************************************************)
(* The settings of youtube.py: the module globals, the default arguments   *)
(* the def statements bind from them, the overrides of main() and the      *)
(* values the calls of the pipeline work with.  Similarities are in        *)
(* hundredths, as MIN_SIMILARITY is.                                       *)
(***************************************************************************)
MaxPipelineCalls == 3

Settings(retries, min_sim, min_words, min_chars) ==
    [RETRIES |-> retries, MIN_SIMILARITY |-> min_sim, MIN_WORDS |-> min_words, MIN_CHARS |-> min_chars]

\* the values the environment gives the globals when the module is loaded:
\* the defaults of os.getenv and another YT_RETRIES and YT_MIN_SIMILARITY
EnvSettings == {Settings(r, m, MIN_WORDS, MIN_CHARS) : r \in {1, MaxTries}, m \in {MIN_SIMILARITY, 50}}

\* the values of --retries, --min-sim, --min-words and --min-chars that are
\* not the defaults of the parser
ArgSettings == {Settings(r, m, mw, mc) : r \in {1, MaxTries, 5}, m \in {MIN_SIMILARITY, 50}, mw \in {3, MIN_WORDS}, mc \in {10, MIN_CHARS}}

\* def search_video_ids(..., tries=RETRIES), def fetch_video_details(...,
\* tries=RETRIES), def fetch_relevant_comments(..., min_similarity=
\* MIN_SIMILARITY, tries=RETRIES): evaluated once, when the def is executed
DefaultsFrom(globals) == [tries |-> globals.RETRIES, min_similarity |-> globals.MIN_SIMILARITY]

ConfigIdle ==
    /\ cfg_pc = "idle" /\ cfg_globals = None /\ cfg_defaults = None
    /\ cfg_parameters = None /\ cfg_calls = <<>>

\* the module is loaded and main() starts
ConfigInit ==
    /\ cfg_globals \in EnvSettings
    /\ cfg_defaults = DefaultsFrom(cfg_globals)
    /\ cfg_pc = "main" /\ cfg_parameters = None /\ cfg_calls = <<>>

\* main(): the parser's defaults are the globals, then RETRIES = args.retries,
\* MIN_SIMILARITY = args.min_sim, MIN_WORDS = args.min_words,
\* MIN_CHARS = args.min_chars
MainOverrides ==
    /\ cfg_pc = "main"
    /\ cfg_globals' \in ArgSettings \cup {cfg_globals}
    /\ cfg_pc' = "process"
    /\ UNCHANGED <<cfg_defaults, cfg_parameters, cfg_calls, notConfig>>

\* process_all_competitors builds results["parameters"]
RecordParameters ==
    /\ cfg_pc = "process"
    /\ cfg_parameters' = [retries |-> cfg_globals.RETRIES, min_similarity |-> cfg_globals.MIN_SIMILARITY,
                          min_words |-> cfg_globals.MIN_WORDS, min_chars |-> cfg_globals.MIN_CHARS]
    /\ cfg_pc' = "pipeline"
    /\ UNCHANGED <<cfg_globals, cfg_defaults, cfg_calls, notConfig>>

\* process_single_competitor: search_video_ids(queries, brand_name,
\* max_results=max_videos), which calls execute_with_retry(req, tries=tries)
SearchCall ==
    /\ cfg_pc = "pipeline" /\ Len(cfg_calls) < MaxPipelineCalls
    /\ cfg_calls' = Append(cfg_calls, [call |-> "search_video_ids", tries |-> cfg_defaults.tries])
    /\ UNCHANGED <<cfg_pc, cfg_globals, cfg_defaults, cfg_parameters, notConfig>>

\* process_single_competitor: fetch_video_details(video_ids)
DetailsCall ==
    /\ cfg_pc = "pipeline" /\ Len(cfg_calls) < MaxPipelineCalls
    /\ cfg_calls' = Append(cfg_calls, [call |-> "fetch_video_details", tries |-> cfg_defaults.tries])
    /\ UNCHANGED <<cfg_pc, cfg_globals, cfg_defaults, cfg_parameters, notConfig>>

\* process_single_competitor: fetch_relevant_comments(v["video_id"],
\* brand_name, q, max_comments=max_comments); looks_meaningful reads
\* MIN_CHARS and MIN_WORDS when it runs
CommentsCall ==
    /\ cfg_pc = "pipeline" /\ Len(cfg_calls) < MaxPipelineCalls
    /\ cfg_calls' = Append(cfg_calls, [call |-> "fetch_relevant_comments", tries |-> cfg_defaults.tries,
                                       min_similarity |-> cfg_defaults.min_similarity,
                                       min_words |-> cfg_globals.MIN_WORDS, min_chars |-> cfg_globals.MIN_CHARS])
    /\ UNCHANGED <<cfg_pc, cfg_globals, cfg_defaults, cfg_parameters, notConfig>>

ConfigNext == MainOverrides \/ RecordParameters \/ SearchCall \/ DetailsCall \/ CommentsCall

(***************************************************************************)
(* Specifications                                                          *)
(***************************************************************************)
\* the URL functions on every input of UrlInputs
InitUrl == UrlInit /\ now = StartTime /\ BreakerIdle /\ CommentsIdle /\ CrawlIdle /\ LockIdle /\ RetryIdle /\ SearchIdle /\ QueryIdle /\ ConfigIdle
SpecUrl == InitUrl /\ [][UrlNext]_vars

\* one circuit breaker, one caller
InitBreaker == BreakerInit /\ now = StartTime /\ UrlIdle /\ CommentsIdle /\ CrawlIdle /\ LockIdle /\ RetryIdle /\ SearchIdle /\ QueryIdle /\ ConfigIdle
SpecBreaker == InitBreaker /\ [][BreakerNext]_vars

\* fetch_relevant_comments on every response of Responses
InitComments == CommentsInit /\ now = StartTime /\ UrlIdle /\ BreakerIdle /\ CrawlIdle /\ LockIdle /\ RetryIdle /\ SearchIdle /\ QueryIdle /\ ConfigIdle
SpecComments == InitComments /\ [][CommentsNext]_vars

\* the crawl of every site of Sites, with every page cap and worker count
InitCrawl == CrawlInit /\ now = CrawlStart /\ UrlIdle /\ BreakerIdle /\ CommentsIdle /\ LockIdle /\ RetryIdle /\ SearchIdle /\ QueryIdle /\ ConfigIdle
SpecCrawl == InitCrawl /\ [][CrawlNext]_vars

\* the crawl under fair scheduling: every site, page limit and number of
\* workers of SpecCrawl but BusySite with two workers and two pages, and
\* DeadSite with one worker
InitCrawlFair ==
    /\ \/ \E s \in Sites, pages \in 1..MaxPages, workers \in 1..MaxWorkers :
            /\ ~(s = BusySite /\ pages = MaxPages /\ workers = MaxWorkers)
            /\ CrawlStarts(s, pages, workers)
       \/ CrawlStarts(DeadSite, MaxPages, 1)
    /\ now = CrawlStart /\ UrlIdle /\ BreakerIdle /\ CommentsIdle /\ LockIdle /\ RetryIdle /\ SearchIdle
    /\ QueryIdle /\ ConfigIdle
SpecCrawlFair == InitCrawlFair /\ [][CrawlNext]_vars /\ CrawlFairness

\* the crawl of the scenario site with max_pages = 3 and two workers, every
\* fetch succeeding
InitScenario == ScenarioInit /\ now = CrawlStart /\ UrlIdle /\ BreakerIdle /\ CommentsIdle /\ LockIdle /\ RetryIdle /\ SearchIdle /\ QueryIdle /\ ConfigIdle
SpecScenario == InitScenario /\ [][ScenarioNext]_vars

\* the threads of a crawl going through the regions of the code
InitLock == LockInit /\ now = CrawlStart /\ UrlIdle /\ BreakerIdle /\ CommentsIdle /\ CrawlIdle /\ RetryIdle /\ SearchIdle /\ QueryIdle /\ ConfigIdle
SpecLock == InitLock /\ [][LockNext]_vars

\* execute_with_retry with every number of tries up to MaxTries
InitRetry == RetryInit /\ now = StartTime /\ UrlIdle /\ BreakerIdle /\ CommentsIdle /\ CrawlIdle /\ LockIdle /\ SearchIdle /\ QueryIdle /\ ConfigIdle
SpecRetry == InitRetry /\ [][RetryNext]_vars

\* search_video_ids with every number of queries and every max_results
InitSearch == SearchInit /\ now = StartTime /\ UrlIdle /\ BreakerIdle /\ CommentsIdle /\ CrawlIdle /\ LockIdle /\ RetryIdle /\ QueryIdle /\ ConfigIdle
SpecSearch == InitSearch /\ [][SearchNext]_vars

\* build_search_queries on the inputs of QueryInit
InitQuery ==
    /\ QueryInit /\ now = StartTime /\ UrlIdle /\ BreakerIdle /\ CommentsIdle /\ CrawlIdle /\ LockIdle
    /\ RetryIdle /\ SearchIdle /\ ConfigIdle
SpecQuery == InitQuery /\ [][QueryNext]_vars

\* the settings of one run of youtube.py
InitConfig ==
    /\ ConfigInit /\ now = StartTime /\ UrlIdle /\ BreakerIdle /\ CommentsIdle /\ CrawlIdle /\ LockIdle
    /\ RetryIdle /\ SearchIdle /\ QueryIdle
SpecConfig == InitConfig /\ [][ConfigNext]_vars

(***************************************************************************)
(* Claims about the URL functions (SpecUrl)                                *)
(***************************************************************************)
\* C5: normalize_url is idempotent: normalizing a normalized URL returns it
\* unchanged, for every input.
C5_NormalizeIdempotent == u_pc >= 3 => u_norm2 = u_norm1

\* a host with one leading "www." ignored, case ignored
HostIgnoringLeadingWww(netloc) ==
    IF MatchAt(Lower(netloc), 1, <<"w","w","w",".">>)
    THEN Drop(Lower(netloc), 5)
    ELSE Lower(netloc)

\* C6: is_valid_url is false for every URL whose host, a leading "www."
\* ignored, differs from the host of the crawl's base URL.
C6_CrossDomainInvalid ==
    ( /\ u_pc >= 1
      /\ HostIgnoringLeadingWww(urlparse(u_url).netloc)
           # HostIgnoringLeadingWww(urlparse(u_base).netloc) )
    => ~u_valid

(***************************************************************************)
(* Claims about the circuit breaker (SpecBreaker)                          *)
(***************************************************************************)
\* a step that is a call of call()
IsCall == b_calls' = b_calls + 1

\* the breaker is open and the time since the last failure has not exceeded
\* the recovery timeout
WithinTimeout == cb.state = "open" /\ now - cb.last_failure_time <= cb.recovery_timeout

\* C1: the call whose wrapped function is the T-th to raise leaves the breaker
\* open; a call made while the breaker is open and the time since the last
\* failure has not exceeded R ends with the circuit-open error, runs nothing and
\* changes nothing; so after T failing calls and nothing else the wrapped
\* function has been invoked exactly T times, however many calls were rejected.
C1_FailFast ==
    /\ [][ /\ (b_raised' = b_raised + 1 /\ b_raised' = cb.failure_threshold)
               => cb'.state = "open"
           /\ (IsCall /\ WithinTimeout)
               => (b_last' = "circuit_open" /\ b_invocations' = b_invocations /\ cb' = cb)
         ]_vars
    /\ [](( /\ cb.state = "open"
            /\ b_raised = cb.failure_threshold
            /\ b_returned = 0 )
          => b_invocations = cb.failure_threshold)

\* C1 witness: T calls raised, then a call was rejected, the counter still at T
C1_Witness ==
    /\ cb.state = "open"
    /\ b_last = "circuit_open"
    /\ b_raised = cb.failure_threshold
    /\ b_invocations = cb.failure_threshold
    /\ b_calls > cb.failure_threshold

\* C9: a call made once the breaker is open and more than R has passed since
\* the last failure runs the wrapped function in half-open state; if it returns
\* the breaker is closed with failure_count 0; if it raises the breaker is open
\* with last_failure_time the time of that failure, so that no call is admitted
\* during the next R seconds.
C9_HalfOpen ==
    [][ /\ (IsCall /\ cb.state = "open" /\ ~WithinTimeout)
           => (cb'.state = "half-open" /\ b_pc' = "in_func"
               /\ b_invocations' = b_invocations + 1)
        /\ (cb.state = "half-open" /\ b_returned' = b_returned + 1)
           => (cb'.state = "closed" /\ cb'.failure_count = 0)
        /\ (cb.state = "half-open" /\ b_raised' = b_raised + 1)
           => ( /\ cb'.state = "open"
                /\ cb'.last_failure_time = now
                /\ \A t \in now..(now + cb.recovery_timeout) : ~cb_admits(cb', t) )
      ]_vars

\* C9 witness: a trial call in half-open state raised and the breaker reopened
\* after it had been closed again by an earlier trial
C9_Witness ==
    /\ cb.state = "open"
    /\ b_last = "raised"
    /\ b_returned > 0
    /\ cb.failure_count = cb.failure_threshold + 1

(***************************************************************************)
(* Claims about the comment pipeline (SpecComments)                        *)
(***************************************************************************)
\* the positions of filtered whose score reaches the floor
Qualifying == {i \in 1..Len(y_filtered) : y_sims[i] >= y_min_similarity}

\* the positions of filtered that were returned
Returned == {i \in 1..Len(y_filtered) : \E j \in 1..Len(y_out) : y_out[j].item = y_filtered[i].item}

\* C7: once the comments are scored, the list returned holds the
\* highest-scoring comments among those at or above min_similarity, in
\* descending order of score, at most max_comments of them whatever
\* max_comments is, and as many as the cap allows; it is empty when no score
\* reaches the floor.
C7_TopScoring ==
    (y_pc = "done" /\ y_sims # <<>>) =>
        /\ \A j \in 1..Len(y_out) :
              \E i \in Qualifying :
                  /\ y_filtered[i].item = y_out[j].item
                  /\ y_filtered[i].text = y_out[j].text
                  /\ y_sims[i] = y_out[j].similarity_score
        /\ \A j, k \in 1..Len(y_out) :
              j < k => /\ y_out[j].similarity_score >= y_out[k].similarity_score
                       /\ y_out[j].item # y_out[k].item
        /\ \A i \in Qualifying \ Returned :
              \A j \in 1..Len(y_out) : y_sims[i] <= y_out[j].similarity_score
        /\ Len(y_out) <= y_max_comments
        /\ Len(y_out) = Min(y_max_comments, Cardinality(Qualifying))

\* C8: every comment in the list returned is the normalized text of an item
\* that has at least MIN_CHARS characters and passed the other
\* meaningfulness tests, that detect answered "en" for, that holds a keyword
\* of the question and whose score reaches the floor; detect is asked only
\* about texts of at least MIN_CHARS characters, and only comments detected
\* as English reach the keyword filter.
C8_AllStagesPassed ==
    /\ \A j \in 1..Len(y_out) :
          /\ y_out[j].text = normalize(y_items[y_out[j].item])
          /\ Len(y_out[j].text) >= MIN_CHARS
          /\ WordCount(y_out[j].text) >= MIN_WORDS
          /\ 5 * NonAlnum(y_out[j].text) <= 2 * Len(y_out[j].text)
          /\ ~MatchesTrash(tolc(y_out[j].text))
          /\ y_detect[y_out[j].item] = "en"
          /\ HasKeyword(y_out[j].text)
          /\ y_out[j].similarity_score >= y_min_similarity
    /\ \A i \in 1..Len(y_detect) :
          y_detect[i] # "none" => Len(normalize(y_items[i])) >= MIN_CHARS
    /\ \A i \in 1..Len(y_filtered) : y_detect[y_filtered[i].item] = "en"

\* C8 witness: a list was returned that holds a comment, from a response that
\* also held a comment shorter than MIN_CHARS with a keyword of the question
\* and a comment whose language detection raised
C8_Witness ==
    /\ y_pc = "done"
    /\ y_out # <<>>
    /\ \E i \in 1..Len(y_items) :
          Len(normalize(y_items[i])) < MIN_CHARS /\ HasKeyword(normalize(y_items[i]))
    /\ \E i \in 1..Len(y_items) : y_detect[i] = "raise"

(***************************************************************************)
(* Claims about the crawl (SpecCrawl, SpecScenario)                        *)
(***************************************************************************)
\* C2: whatever add_url calls are made, interleaved in any way with
\* get_next_url and scrape_page, get_next_url returns a given normalized URL
\* at most once during the crawl.
C2_DequeuedOnce ==
    \A i, j \in 1..Len(dequeued) : i # j => dequeued[i] # dequeued[j]

\* C3: in the crawl of the scenario site (seed https://site.test/, max_pages
\* 3, the seed linking to two pages of the site, a page of another site and a
\* PDF, every fetch succeeding) the URL of the other site and the PDF never
\* enter a queue and are never returned by get_next_url, and when the crawl
\* has ended exactly three pages are processed: the seed and the two pages
\* of the site.
C3_Scenario ==
    /\ queued \cap {Urls.other, Urls.pdf} = {}
    /\ (Elements(priority_urls) \cup Elements(regular_urls)) \cap {Urls.other, Urls.pdf} = {}
    /\ Elements(dequeued) \cap {Urls.other, Urls.pdf} = {}
    /\ Len(page_summaries) <= 3
    /\ m_pc = "finished" =>
          /\ Len(page_summaries) = 3
          /\ Elements(page_summaries) = {base_url, Urls.about, Urls.team}

\* C3 witness: the crawl of the scenario site has ended with three pages
\* after the four links of the seed page were gone through
C3_Witness ==
    /\ site = ScenarioSite
    /\ m_pc = "finished"
    /\ Len(page_summaries) = 3
    /\ Len(releases) = 3
    /\ {Urls.about, Urls.team} \subseteq queued

\* C4: with any number of workers, two consecutive requests are released by
\* smart_delay at least min_delay apart.
C4_MinDelayApart ==
    \A i \in 2..Len(releases) : releases[i] - releases[i - 1] >= min_delay

\* the pages requested so far answered with HTML, another content type or
\* 429: no request met a server error
OnlyRateLimitErrors ==
    \A u \in visited : Fetch(site, u).status \in {"html", "other", "429"}

\* C10: the failure of a fetch answered with 429 leaves the failure count of
\* the breaker that guards server-error fetches as it was and does not open
\* it; and as long as the only errors are 429 answers no fetch is rejected by
\* that breaker.
C10_Independent ==
    /\ [][ \A slot \in Slots :
             ( /\ w[slot].pc = "cb_fail"
               /\ w[slot].err = "rate_limited"
               /\ w'[slot].pc # "cb_fail" )
             => ( /\ circuit_breakers'.server_error.failure_count
                       = circuit_breakers.server_error.failure_count
                  /\ circuit_breakers'.server_error.state # "open" )
         ]_vars
    /\ [](OnlyRateLimitErrors =>
             /\ stats.circuit_breaker_trips = 0
             /\ \A slot \in Slots : w[slot].err # "circuit_open")

\* ---- frontier (SpecCrawl) --------------------------------------------------
\* a queue holds no URL twice
NoRepeat(q) == \A i, j \in 1..Len(q) : q[i] = q[j] => i = j

\* C11: in every reachable state each normalized URL occurs at most once
\* in priority_urls and regular_urls taken together
C11_OncePerFrontier == NoRepeat(priority_urls \o regular_urls)

\* the URLs a step appends to the queue: q before the step, r after it
Appended(q, r) ==
    IF Len(r) > Len(q) THEN {r[i] : i \in (Len(q) + 1)..Len(r)} ELSE {}

\* C12: no step appends to priority_urls or to regular_urls a URL that is in
\* visited or in failed_urls, and neither set ever loses a URL
C12_NoRequeue ==
    [][/\ (Appended(priority_urls, priority_urls') \cup Appended(regular_urls, regular_urls'))
            \cap (visited \cup failed_urls) = {}
       /\ visited \subseteq visited'
       /\ failed_urls \subseteq failed_urls']_vars

\* C12 reached: on ScenarioSite a task went through the links of the about
\* page, whose only valid link is the visited start page, and add_url left
\* both queues without it
C12_Witness ==
    /\ site = ScenarioSite
    /\ \E s \in Slots : /\ w[s].url = Urls.about
                        /\ w[s].pc = "cb_ok"
                        /\ w[s].result = "page"
    /\ base_url \in visited
    /\ base_url \in Elements(ValidLinks(Fetch(site, Urls.about).links))
    /\ base_url \notin Elements(priority_urls) \cup Elements(regular_urls)

\* a step in which get_next_url returned a URL
Returns == dequeued' # dequeued

\* C13: get_next_url returns the oldest URL of priority_urls, or the oldest
\* URL of regular_urls when priority_urls is empty, and removes it; every
\* other step leaves the queues alone or appends at the end
C13_PriorityFirstFifo ==
    [][/\ Returns =>
            /\ dequeued' = Append(dequeued, get_next_url)
            /\ \/ /\ priority_urls # <<>>
                  /\ get_next_url = Head(priority_urls)
                  /\ priority_urls' = Tail(priority_urls)
                  /\ regular_urls' = regular_urls
               \/ /\ priority_urls = <<>>
                  /\ regular_urls # <<>>
                  /\ get_next_url = Head(regular_urls)
                  /\ regular_urls' = Tail(regular_urls)
                  /\ priority_urls' = priority_urls
       /\ ~Returns =>
            /\ Len(priority_urls') >= Len(priority_urls)
            /\ SubSeq(priority_urls', 1, Len(priority_urls)) = priority_urls
            /\ Len(regular_urls') >= Len(regular_urls)
            /\ SubSeq(regular_urls', 1, Len(regular_urls)) = regular_urls]_vars

\* C13 reached: on BusySite the regular queue held several URLs at once and
\* they were returned in the order of the links of the start page, after
\* the start page that came from the priority queue
C13_Witness ==
    /\ site = BusySite
    /\ Len(dequeued) >= 4
    /\ dequeued[1] = base_url
    /\ SubSeq(dequeued, 2, 4) = SubSeq(ValidLinks(Fetch(BusySite, base_url).links), 1, 3)

\* C14: the step of run() that calls get_next_url when page_summaries has
\* reached max_pages gets None, and it removes nothing from either queue
C14_NoneAtLimit ==
    [][(/\ m_pc = "submit"
        /\ m_pc' # m_pc \/ Returns
        /\ Len(futures) < max_workers
        /\ Len(page_summaries) >= max_pages)
       => /\ get_next_url = None
          /\ ~Returns
          /\ priority_urls' = priority_urls
          /\ regular_urls' = regular_urls]_vars

\* C14 reached: get_next_url returned None for the page limit while a URL
\* was queued
C14_Witness == \E n \in refused : n > 0
\* ---- run() (SpecCrawlFair) ------------------------------------------------
\* the while loop of run() is over
LoopExited == m_pc \in {"shutdown", "finished"}

\* no URL is queued and no task is in flight
NothingLeft ==
    /\ priority_urls = <<>>
    /\ regular_urls = <<>>
    /\ futures = <<>>
    /\ \A s \in Slots : w[s].pc = "free"

\* C15: under fair scheduling the loop of run() eventually exits, and the
\* step that leaves it is taken with page_summaries at max_pages, or with no
\* URL queued and no task in flight, or with consecutive_failures at 10 or
\* more
C15_LoopExits ==
    /\ <>LoopExited
    /\ [][(~LoopExited /\ LoopExited')
            => \/ Len(page_summaries) >= max_pages
               \/ NothingLeft
               \/ consecutive_failures >= max_consecutive_failures]_vars

\* C15 reached: on DeadSite run() is over after ten failed tasks in a row,
\* below the page limit and with a URL still queued
C15_Witness ==
    /\ m_pc = "finished"
    /\ consecutive_failures >= max_consecutive_failures
    /\ Len(page_summaries) < max_pages
    /\ priority_urls \o regular_urls # <<>>
\* ---- adaptive delay (SpecCrawl) -------------------------------------------
\* the step in which scrape_page adapts the delay to the failure of the task
\* in the slot
AdaptsTo(slot, err) ==
    /\ w[slot].pc = "adapt"
    /\ w[slot].err = err
    /\ w'[slot].pc = "done"

\* C16: when scrape_page has handled a rate-limit response or a rejection by
\* the open circuit breaker, adaptive_delay is at least what it was before
\* and at most 15 seconds
C16_BoundedIncrease ==
    [][\A slot \in Slots :
          AdaptsTo(slot, "rate_limited") \/ AdaptsTo(slot, "circuit_open")
          => /\ adaptive_delay' >= adaptive_delay
             /\ adaptive_delay' <= 15000]_vars

\* the step in which _make_request of the task in the slot has its response
Succeeds(slot) == w[slot].pc = "response" /\ w'[slot].pc # "response"

\* C17: adaptive_delay is never below min_delay, and a successful request
\* sets it to nine tenths of its value, or to min_delay when that is less
C17_FloorKept ==
    /\ [](min_delay <= adaptive_delay)
    /\ [][\A slot \in Slots :
             Succeeds(slot)
             => adaptive_delay' = IF (adaptive_delay * 9) \div 10 < min_delay
                                  THEN min_delay
                                  ELSE (adaptive_delay * 9) \div 10]_vars

\* C17 reached: a success lowered a delay that rate-limit responses had
\* raised, and one more success would take it to the lower limit
C17_Witness ==
    /\ stats.rate_limit_hits > 0
    /\ min_delay < adaptive_delay
    /\ adaptive_delay \in {(d * 9) \div 10 : d \in {4000, 8000, 15000}}
\* ---- unlocked state (SpecCrawl) -------------------------------------------
\* the task in the slot is in smart_delay between its read of
\* last_request_time and adaptive_delay and its write of last_request_time
InSmartDelay(slot) == w[slot].pc = "sleep"

\* the task in the slot is in CircuitBreaker.call between the test of state
\* that admitted it and the update that follows the wrapped function
InBreakerCall(slot) == w[slot].pc \in {"request", "response", "links", "cb_ok", "cb_fail"}

\* the step is taken by the task in the slot
StepOf(slot) == w'[slot] # w[slot] /\ w[slot].pc \notin {"free", "done"}

\* C19: no worker writes the rate-limiter state while another worker is
\* between its read and its write of it, and no worker writes the
\* circuit-breaker state while another worker is between its read and its
\* write of it
C19_NoInterleavedUpdate ==
    [][\A s, t \in Slots :
          s # t /\ StepOf(s)
          => /\ InSmartDelay(t) => limiterVars' = limiterVars
             /\ InBreakerCall(t) => circuit_breakers' = circuit_breakers]_vars
\* ---- self.lock (SpecLock) --------------------------------------------------
\* the thread is inside a region that mutates visited, failed_urls, a
\* queue, page_summaries or stats
Mutating(t) == l_in[t] /\ l_at[t] \in DOMAIN Regions /\ Regions[l_at[t]].writes # {}

\* the thread is inside an HTTP request, a robots check or a rate-limit sleep
Waiting(t) == l_in[t] /\ l_at[t] \in DOMAIN Regions /\ Regions[l_at[t]].waits # "none"

\* C18: a thread that is mutating visited, failed_urls, a queue,
\* page_summaries or stats holds self.lock, and a thread that is in an HTTP
\* request, a robots check or a rate-limit sleep does not hold it
C18_LockDiscipline ==
    \A t \in Threads : /\ Mutating(t) => lock = t
                       /\ Waiting(t) => lock # t

\* C18 reached: one worker is adding a link to the frontier under the lock
\* while the other has an HTTP request in progress and the main thread is
\* waiting for the lock in get_next_url
C18_Witness ==
    /\ l_at[1] = "enqueue" /\ l_in[1] /\ lock = 1
    /\ l_at[2] = "request" /\ l_in[2]
    /\ l_at[MainThread] = "dequeue" /\ ~l_in[MainThread]

\* ---- execute_with_retry (SpecRetry) ----------------------------------------
\* the errors after which the claim allows a further attempt: a network
\* timeout, a connection error, an HTTP status of the 5xx class
MayRetryAfter(e) ==
    \/ e \in NetworkErrors
    \/ e.type = "HttpError" /\ e.status >= 500 /\ e.status <= 599

\* C20: an attempt that raised anything but a network timeout, a connection
\* error or an HTTP 5xx status is the last attempt, no backoff sleep follows
\* it, and the call ends by raising that error
C20_OnlyTransientRetried ==
    \A i \in 1..Len(r_outcomes) :
        (r_outcomes[i] # Returned200 /\ ~MayRetryAfter(r_outcomes[i]))
        => /\ i = Len(r_outcomes)
           /\ Len(r_sleeps) < i
           /\ r_pc \in {"returned", "raised"} => r_result = r_outcomes[i]

\* C21: request.execute() is invoked at most tries times, a result it
\* returns ends the call at once as the result of the call, and an error the
\* call raises is the last error request.execute() raised
C21_BoundedAttempts ==
    /\ Len(r_outcomes) <= r_tries
    /\ \A i \in 1..Len(r_outcomes) :
          r_outcomes[i] = Returned200
          => i = Len(r_outcomes) /\ r_pc = "returned" /\ r_result = Returned200
    /\ r_pc = "raised"
       => r_outcomes # <<>> /\ r_result = r_outcomes[Len(r_outcomes)]

\* ---- fetch_relevant_comments: errors (SpecComments) ------------------------
\* C22: fetch_relevant_comments never ends by raising; when
\* execute_with_retry raised, whatever the error, it returns the empty list;
\* when the embedder raised it returns the empty list; and a malformed item
\* is skipped, never kept
C22_NoPropagation ==
    /\ y_pc # "raised"
    /\ y_error # None => y_pc = "done" /\ y_out = <<>>
    /\ (y_pc = "done" /\ y_filtered # <<>> /\ y_pairs = <<>>) => y_out = <<>>
    /\ \A j \in 1..Len(y_raw) : y_items[y_raw[j].item] # MalformedItem

\* C22 reached: the fetch of a response with items failed with a connection
\* error after the retries and the function returned
C22_Witness ==
    /\ y_pc = "done"
    /\ y_error = Outcome("ConnectionError", 0)
    /\ y_items # <<>>
    /\ y_out = <<>>

\* ---- search_video_ids (SpecSearch) -----------------------------------------
\* the IDs the rounds of the loop over queries collected from their answers
RECURSIVE Collected(_)
Collected(answers) ==
    IF answers = <<>> THEN <<>>
    ELSE ScanItems(answers[Len(answers)].items,
                   Collected(SubSeq(answers, 1, Len(answers) - 1)), SearchBrand).found

\* C23: the queries are attempted in order with none left out; a query whose
\* search failed does not end the loop; queries are left unattempted only
\* when max_results IDs had been collected; and the list returned has no
\* duplicate and at most max_results IDs
C23_FailedQuerySkipped ==
    /\ s_pc \in {"query", "fallback", "return", "done"}
    /\ Len(s_answers) = s_k - 1
    /\ \A i \in 1..Len(s_answers) :
          (~s_answers[i].ok /\ i < s_queries) => (s_pc = "query" \/ Len(s_answers) > i)
    /\ (s_pc # "query" /\ Len(s_answers) < s_queries)
       => Len(Collected(s_answers)) >= s_max_results
    /\ s_pc = "done"
       => /\ \A i, j \in 1..Len(s_out) : s_out[i] = s_out[j] => i = j
          /\ Len(s_out) <= s_max_results

\* C23 reached: the first of two searches failed, the second was still made
\* and its two videos on topic were returned
C23_Witness ==
    /\ s_pc = "done"
    /\ s_queries = 2
    /\ s_answers = <<Failed, Answered(<<Item(<<"v","1">>, SnippetAlias), Item(<<"v","2">>, SnippetChannel)>>)>>
    /\ s_out = << <<"v","1">>, <<"v","2">> >>

\* the IDs of the items of an answer that is_video_on_topic accepts
OnTopicIds(answer) ==
    {answer.items[i].videoId : i \in {j \in 1..Len(answer.items) :
                                        is_video_on_topic(answer.items[j].snippet, SearchBrand)}}

\* C24: every video ID search_video_ids returns is the ID of an item of a
\* search result for which is_video_on_topic was true
C24_OnlyOnTopic ==
    s_pc = "done"
    => \A i \in 1..Len(s_out) :
          \/ \E k \in 1..Len(s_answers) : s_out[i] \in OnTopicIds(s_answers[k])
          \/ s_fallback # None /\ s_out[i] \in OnTopicIds(s_fallback)

\* the index of the first occurrence of q in list, from 1
FirstIndex(list, q) == CHOOSE i \in 1..Len(list) : list[i] = q /\ \A j \in 1..(i - 1) : list[j] # q

\* out holds, in the order of generation and without a gap, the first
\* occurrences of queries of the generated list
KeepsGenerationOrder(out, generated) ==
    /\ \A i \in 1..Len(out) : out[i] \in Elements(generated)
    /\ \A i, j \in 1..Len(out) : i < j => FirstIndex(generated, out[i]) < FirstIndex(generated, out[j])
    /\ \A i \in 1..Len(out), k \in 1..Len(generated) :
            k < FirstIndex(generated, out[i]) => generated[k] \in Elements(out)

\* the generated list holds, per alias, the keyword queries then the five
\* fixed queries, and the brand and domain query last
GeneratedInOrder(generated, aliases, terms, brand, dom) ==
    /\ Len(generated) = Len(aliases) * (Len(terms) + 5) + (IF dom = <<>> THEN 0 ELSE 1)
    /\ \A a \in 1..Len(aliases) :
          /\ \A k \in 1..Len(terms) :
                generated[(a - 1) * (Len(terms) + 5) + k] = KeywordQuery(aliases[a], terms[k])
          /\ \A k \in 1..5 :
                generated[(a - 1) * (Len(terms) + 5) + Len(terms) + k] = SuffixQueries(aliases[a])[k]
    /\ dom # <<>> => generated[Len(generated)] = Quoted(brand) \o <<" ">> \o Quoted(dom)

\* C25: the list build_search_queries returns has no duplicate query, has at
\* most max_q queries and keeps the order of first occurrence of the
\* generated queries (per alias the keyword queries then the fixed queries,
\* the brand and domain query last)
C25_DedupedCapped ==
    bq_pc = "done" =>
        /\ \A i, j \in 1..Len(bq_out) : i # j => bq_out[i] # bq_out[j]
        /\ Len(bq_out) <= bq_max_q
        /\ KeepsGenerationOrder(bq_out, bq_queries)
        /\ GeneratedInOrder(bq_queries, BRAND_ALIASES(tolc(bq_brand)), KeyTerms(bq_question),
                            bq_brand, domain_from_url(bq_website))

\* the same properties for a max_q of at least 1
QueriesCappedFromOne ==
    (bq_pc = "done" /\ bq_max_q >= 1) => C25_DedupedCapped

\* C26: every call of the pipeline made after the overrides of main() works
\* with the values recorded in results["parameters"]: execute_with_retry
\* with the recorded number of tries, fetch_relevant_comments with the
\* recorded similarity floor, minimum of words and minimum of characters
C26_OverridesApplied ==
    \A i \in 1..Len(cfg_calls) :
        /\ cfg_calls[i].tries = cfg_parameters.retries
        /\ cfg_calls[i].call = "fetch_relevant_comments" =>
              /\ cfg_calls[i].min_similarity = cfg_parameters.min_similarity
              /\ cfg_calls[i].min_words = cfg_parameters.min_words
              /\ cfg_calls[i].min_chars = cfg_parameters.min_chars

\* the part of C26 that holds: the minimums of words and characters
LengthMinimumsApplied ==
    \A i \in 1..Len(cfg_calls) :
        cfg_calls[i].call = "fetch_relevant_comments" =>
              /\ cfg_calls[i].min_words = cfg_parameters.min_words
              /\ cfg_calls[i].min_chars = cfg_parameters.min_chars

\* the scrape_page call of the slot is at its visited test with a URL that
\* is new and that robots.txt disallows
AtDisallowed(slot) ==
    /\ w[slot].pc = "start"
    /\ UrlFacts[w[slot].url].normalized \notin visited
    /\ site.robots_loaded /\ w[slot].url \in site.disallowed

\* the scrape_page call of the slot is at its visited test with a new URL
\* and robots.txt could not be loaded
AtUnread(slot) ==
    /\ w[slot].pc = "start"
    /\ UrlFacts[w[slot].url].normalized \notin visited
    /\ ~site.robots_loaded

\* C27: scrape_page of a URL that robots.txt disallows marks it visited and
\* returns None without an HTTP request and leaves failed_urls,
\* errors_encountered (with the other counters), the breakers and
\* adaptive_delay as they are; when robots.txt could not be loaded the call
\* goes on to the request for every URL
C27_PolicyRejection ==
    [][\A slot \in Slots :
          /\ (AtDisallowed(slot) /\ w'[slot] # w[slot]) =>
                /\ UrlFacts[w[slot].url].normalized \in visited'
                /\ w'[slot] = Done("none")
                /\ failed_urls' = failed_urls
                /\ stats' = stats
                /\ circuit_breakers' = circuit_breakers
                /\ adaptive_delay' = adaptive_delay
                /\ last_request_time' = last_request_time /\ releases' = releases
          /\ (AtUnread(slot) /\ w'[slot] # w[slot]) => w'[slot].pc = "delay"]_vars

\* a disallowed URL is never requested, summarized or recorded as failed
DisallowedUntouched ==
    site.robots_loaded =>
        \A url \in site.disallowed :
            /\ \A slot \in Slots : w[slot].url = url => w[slot].pc = "start"
            /\ url \notin Elements(page_summaries)
            /\ UrlFacts[url].normalized \notin failed_urls

\* C27 witness: the call for the disallowed URL has returned: the URL is in
\* visited, no task holds it, and it is neither failed nor summarized
C27_Witness ==
    /\ site.robots_loaded /\ Urls.private \in site.disallowed
    /\ UrlFacts[Urls.private].normalized \in visited
    /\ \A slot \in Slots : w[slot].url # Urls.private
    /\ UrlFacts[Urls.private].normalized \notin failed_urls

\* robots.txt was not loaded and the page it would disallow was summarized
UnreadFetched == ~site.robots_loaded /\ Urls.private \in Elements(page_summaries)

\* C28: page_summaries never holds more than max_pages entries, also after
\* the tasks that were in flight when the cap was reached have completed
C28_SummariesCapped == Len(page_summaries) <= max_pages

\* the same with one worker
SummariesCappedAlone == max_workers = 1 => Len(page_summaries) <= max_pages

\* the entries of page_summaries for a normalized URL
SummariesOf(n) == {i \in 1..Len(page_summaries) : UrlFacts[page_summaries[i]].normalized = n}

\* the normalized forms of the URLs of the model
NormalizedUrls == {UrlFacts[u].normalized : u \in DOMAIN UrlFacts}

\* C29: per normalized URL at most one scrape_page call gets past the test
\* and add of visited, at most one HTTP request is made and at most one
\* entry of page_summaries exists, also when get_next_url returned the URL
\* more than once; failed_urls is a subset of visited
C29_OncePerNormalizedUrl ==
    /\ \A n \in NormalizedUrls :
          /\ Count(passed, n) <= 1
          /\ Count(fetched, n) <= 1
          /\ Cardinality(SummariesOf(n)) <= 1
    /\ failed_urls \subseteq visited

\* C29 witness: get_next_url returned two URLs with one normalized form,
\* both tasks are over, one call got past visited, one request was made and
\* one summary exists
C29_Witness ==
    /\ \E i, j \in 1..Len(dequeued) :
          /\ i < j /\ UrlFacts[dequeued[i]].normalized = UrlFacts[dequeued[j]].normalized
          /\ Count(passed, UrlFacts[dequeued[i]].normalized) = 1
          /\ Count(fetched, UrlFacts[dequeued[i]].normalized) = 1
          /\ Cardinality(SummariesOf(UrlFacts[dequeued[i]].normalized)) = 1
    /\ \A slot \in Slots : w[slot].pc \in {"free", "done"}

\* the step is the return of the wrapped function, the step is its raise
SuccessStep == b_pc = "in_func" /\ b_returned' = b_returned + 1
FailureStep == b_pc = "in_func" /\ b_raised' = b_raised + 1

\* C30: a success in closed state leaves failure_count as it is and only a
\* success in half-open lowers it, so every failure counts and the breaker
\* is open after a failure exactly when the count reached failure_threshold,
\* successes in between or not; with one caller, state is "closed" exactly
\* when failure_count < failure_threshold
C30_SuccessKeepsCount ==
    /\ [](cb.state = "closed" <=> cb.failure_count < cb.failure_threshold)
    /\ [](b_raised < cb.failure_threshold => cb.failure_count = b_raised)
    /\ [][/\ (SuccessStep /\ cb.state = "closed") => cb' = cb
          /\ cb'.failure_count < cb.failure_count => (SuccessStep /\ cb.state = "half-open")
          /\ FailureStep =>
                /\ cb'.failure_count = cb.failure_count + 1
                /\ cb'.state = "open" <=> cb.failure_count + 1 >= cb.failure_threshold
          /\ (FailureStep /\ b_raised' = cb.failure_threshold) => cb'.state = "open"]_vars

\* C30 witness: with a threshold of 2, a call returned in closed state after
\* the first failure and failure_count is still 1
C30_Witness ==
    /\ cb.failure_threshold = 2 /\ cb.state = "closed" /\ cb.failure_count = 1
    /\ b_last = "returned" /\ b_raised = 1 /\ b_pc = "idle"

\* the breaker is open after its second failure with a success among its
\* three calls
OpenedAtThreshold ==
    /\ cb.failure_threshold = 2 /\ cb.state = "open"
    /\ b_raised = 2 /\ b_returned >= 1 /\ b_calls = 3
====
